---------------------------- MODULE Spec2Model ----------------------------
(***************************************************************************)
(* A model of the polygon rasterizer of gpkg-to-png: the Renderer facade   *)
(* (src/src/render.rs), its edge tables (src/src/render/edge.rs) and the   *)
(* window math (src/src/math.rs); then the command line (src/src/cli.rs),  *)
(* the GeoPackage and GeoJSON readers (src/src/gpkg.rs,                    *)
(* src/src/geojson.rs) and the way from the arguments to the renderer      *)
(* (src/src/main.rs).                                                      *)
(*                                                                         *)
(* Numbers.  The compositor works in f32; its operations are modelled bit  *)
(* for bit (IEEE 754 binary32, round to nearest even) on pairs <<m, e>>    *)
(* standing for m * 2^e.  The window math and the edge tables work in f64; *)
(* they are modelled by exact rationals over inputs on which the f64       *)
(* results are exact or far from every rounding boundary that is used.     *)
(***************************************************************************)
EXTENDS Integers, Sequences, FiniteSets, TLC

(***************************************************************************)
(* f32 arithmetic on non-negative values.  A value is <<0, 0>> (zero) or   *)
(* <<m, e>> with 2^23 <= m < 2^24.  Every intermediate stays below 2^31.   *)
(***************************************************************************)
\* The number of bits of q, 0 <= q < 2^31, by halving the search range.
BitLen2(q) == IF q >= 2 THEN 2 ELSE q

BitLen4(q) == IF q >= 4 THEN 2 + BitLen2(q \div 4) ELSE BitLen2(q)

BitLen8(q) == IF q >= 16 THEN 4 + BitLen4(q \div 16) ELSE BitLen4(q)

BitLen16(q) == IF q >= 256 THEN 8 + BitLen8(q \div 256) ELSE BitLen8(q)

BitLen(q) == IF q >= 65536 THEN 16 + BitLen16(q \div 65536) ELSE BitLen16(q)

F32Zero == <<0, 0>>

F32IsZero(a) == a[1] = 0

\* Round q * 2^e (plus a non-zero discarded tail when sticky = 1) to the
\* nearest f32, ties to even.  An inexact q carries at least 26 bits.
F32Round(q, e, sticky) ==
    LET n == BitLen(q) IN
    IF q = 0 THEN F32Zero
    ELSE IF n <= 24 THEN <<q * 2^(24 - n), e - (24 - n)>>
    ELSE LET sh   == n - 24
             m    == q \div 2^sh
             rem  == q % 2^sh
             half == 2^(sh - 1)
             up   == \/ rem > half
                     \/ rem = half /\ sticky = 1
                     \/ rem = half /\ sticky = 0 /\ m % 2 = 1
             m2   == IF up THEN m + 1 ELSE m
         IN IF m2 = 2^24 THEN <<2^23, e + sh + 1>> ELSE <<m2, e + sh>>

\* u8 as f32 (exact).
F32FromInt(n) == F32Round(n, 0, 0)

\* a * b, rounded once.  The 48-bit product is formed from 12-bit limbs.
F32Mul(a, b) ==
    IF F32IsZero(a) \/ F32IsZero(b) THEN F32Zero
    ELSE LET a1  == a[1] \div 4096
             a0  == a[1] % 4096
             b1  == b[1] \div 4096
             b0  == b[1] % 4096
             mid == a1 * b0 + a0 * b1
             L   == (mid % 4096) * 4096 + a0 * b0
             H   == a1 * b1 + (mid \div 4096) + (L \div 16777216)
             Lo  == L % 16777216
             q   == H * 64 + (Lo \div 262144)
             st  == IF Lo % 262144 = 0 THEN 0 ELSE 1
         IN F32Round(q, a[2] + b[2] + 18, st)

\* a / b for b # 0, rounded once: 26 quotient bits below the leading one by
\* long division in base 128 and 32, the remainder as the sticky bit.
F32Div(a, b) ==
    IF F32IsZero(a) THEN F32Zero
    ELSE LET d  == b[1]
             q0 == a[1] \div d
             r0 == a[1] % d
             q1 == (r0 * 128) \div d
             r1 == (r0 * 128) % d
             q2 == (r1 * 128) \div d
             r2 == (r1 * 128) % d
             q3 == (r2 * 128) \div d
             r3 == (r2 * 128) % d
             q4 == (r3 * 32) \div d
             r4 == (r3 * 32) % d
             q  == (((q0 * 128 + q1) * 128 + q2) * 128 + q3) * 32 + q4
         IN F32Round(q, a[2] - b[2] - 26, IF r4 = 0 THEN 0 ELSE 1)

\* The smaller operand shifted to the larger one's exponent, three guard
\* bits kept: <<aligned mantissa, sticky>>.
F32Align(m, d) ==
    IF d >= 27 THEN <<0, 1>>
    ELSE <<(m * 8) \div 2^d, IF (m * 8) % 2^d = 0 THEN 0 ELSE 1>>

\* a + b, rounded once.
F32Add(a, b) ==
    IF F32IsZero(a) THEN b
    ELSE IF F32IsZero(b) THEN a
    ELSE LET hi == IF a[2] >= b[2] THEN a ELSE b
             lo == IF a[2] >= b[2] THEN b ELSE a
             al == F32Align(lo[1], hi[2] - lo[2])
         IN F32Round(hi[1] * 8 + al[1], hi[2] - 3, al[2])

\* a - b for a >= b, rounded once.
F32Sub(a, b) ==
    IF F32IsZero(b) THEN a
    ELSE LET al == F32Align(b[1], a[2] - b[2])
         IN F32Round(a[1] * 8 - al[1] - al[2], a[2] - 3, al[2])

\* `x as u8` of a non-negative f32: truncation, saturating at 255.
F32ToU8(a) ==
    IF F32IsZero(a) THEN 0
    ELSE IF a[2] >= 0 THEN 255
    ELSE IF a[2] <= -24 THEN 0
    ELSE LET t == a[1] \div 2^(0 - a[2]) IN IF t > 255 THEN 255 ELSE t

F32One == F32FromInt(1)

F32_255 == F32FromInt(255)


(***************************************************************************)
(* The image buffer: RgbaImage, a function from <<x, y>> to <<r, g, b, a>>.*)
(***************************************************************************)
Transparent == <<0, 0, 0, 0>>

\* ImageBuffer::from_pixel(width, height, p)
from_pixel(w, h, p) == [xy \in (0 .. w - 1) \X (0 .. h - 1) |-> p]

get_pixel(img, x, y) == img[<<x, y>>]

put_pixel(img, x, y, p) == [img EXCEPT ![<<x, y>>] = p]

\* The closure `blend` of blend_pixel: one colour channel.
BlendMutNoWeight(src, dst, src_a, dst_a, out_a) ==
    F32ToU8(F32Div(F32Add(F32Mul(F32FromInt(src), src_a),
                          F32Mul(F32FromInt(dst), dst_a)),
                   out_a))

blend(src, dst, src_a, dst_a, out_a) ==
    F32ToU8(F32Div(F32Add(F32Mul(F32FromInt(src), src_a),
                          F32Mul(F32Mul(F32FromInt(dst), dst_a),
                                 F32Sub(F32One, src_a))),
                   out_a))

\* blend_pixel(image, x, y, color): Porter-Duff source over destination.
blend_pixel(img, x, y, color) ==
    LET dst   == get_pixel(img, x, y)
        src_a == F32Div(F32FromInt(color[4]), F32_255)
        dst_a == F32Div(F32FromInt(dst[4]), F32_255)
        out_a == F32Add(src_a, F32Mul(dst_a, F32Sub(F32One, src_a)))
    IN IF F32IsZero(out_a) THEN img
       ELSE put_pixel(img, x, y,
                      << blend(color[1], dst[1], src_a, dst_a, out_a),
                         blend(color[2], dst[2], src_a, dst_a, out_a),
                         blend(color[3], dst[3], src_a, dst_a, out_a),
                         F32ToU8(F32Mul(out_a, F32_255)) >>)


(***************************************************************************)
(* Window math (src/src/math.rs).  World coordinates and the resolution    *)
(* are integers in one unit of angle, so a screen coordinate is a rational *)
(* with denominator `resolution`; world_to_screen returns the numerators.  *)
(***************************************************************************)
Min(a, b) == IF a <= b THEN a ELSE b

Max(a, b) == IF a >= b THEN a ELSE b

\* f64::ceil of n / d for d > 0, then `as u32` (negative values become 0).
CeilAsU32(n, d) == IF n <= 0 THEN 0 ELSE (n + d - 1) \div d

\* f64::round of n / d for d > 0: halves round away from zero.
Round(n, d) ==
    IF n >= 0 THEN (2 * n + d) \div (2 * d)
    ELSE 0 - ((2 * (0 - n) + d) \div (2 * d))

\* `as i32` of n / d for d > 0: truncation toward zero.
Trunc(n, d) == IF n >= 0 THEN n \div d ELSE 0 - ((0 - n) \div d)

Bbox_new(min_lon, min_lat, max_lon, max_lat) ==
    [min_lon |-> min_lon, min_lat |-> min_lat,
     max_lon |-> max_lon, max_lat |-> max_lat]

Bbox_width(bbox) == bbox.max_lon - bbox.min_lon

Bbox_height(bbox) == bbox.max_lat - bbox.min_lat

CalcDimsFloorMut(bbox, resolution) ==
    << Bbox_width(bbox) \div resolution, Bbox_height(bbox) \div resolution >>

calculate_dimensions(bbox, resolution) ==
    << CeilAsU32(Bbox_width(bbox), resolution),
       CeilAsU32(Bbox_height(bbox), resolution) >>

world_to_screen(lon, lat, bbox, resolution, h) ==
    << lon - bbox.min_lon, h * resolution - (lat - bbox.min_lat) >>

(***************************************************************************)
(* Edges and the Global Edge Table (src/src/render/edge.rs).  An edge      *)
(* keeps x_current = x_num / x_den and inv_slope = s_num / x_den.          *)
(***************************************************************************)
\* Edge::new(p1, p2) for points given as numerators over d: <<>> is None.
Edge_new(p1, p2, d) ==
    IF p1[2] = p2[2] THEN << >>
    ELSE LET p_start == IF p1[2] < p2[2] THEN p1 ELSE p2
             p_end   == IF p1[2] < p2[2] THEN p2 ELSE p1
             dy      == p_end[2] - p_start[2]
         IN << [y_max |-> Round(p_end[2], d),
                x_num |-> p_start[1] * dy,
                x_den |-> d * dy,
                s_num |-> (p_end[1] - p_start[1]) * d] >>

ScanlineTable_new(y_min, h) ==
    [y_min |-> y_min, entries |-> [i \in 1 .. h |-> << >>]]

AddEdgeMutNoMin(st, y_start, edge) ==
    IF y_start >= 0 /\ y_start < Len(st.entries)
    THEN [st EXCEPT !.entries[y_start + 1] = Append(@, edge)]
    ELSE st

\* add_edge: the index is (y_start - y_min) as usize, so a negative
\* difference is a huge index and the edge is dropped like one past the end.
add_edge(st, y_start, edge) ==
    LET idx == y_start - st.y_min IN
    IF idx >= 0 /\ idx < Len(st.entries)
    THEN [st EXCEPT !.entries[idx + 1] = Append(@, edge)]
    ELSE st

RECURSIVE RingLoop(_, _, _, _)
RingLoop(st, coords, i, d) ==
    IF i > Len(coords) THEN st
    ELSE LET p1 == coords[i]
             p2 == coords[(i % Len(coords)) + 1]
             e  == Edge_new(p1, p2, d)
         IN RingLoop(IF e = << >> THEN st
                     ELSE add_edge(st, Round(Min(p1[2], p2[2]), d), e[1]),
                     coords, i + 1, d)

extract_from_ring(st, ring, bbox, resolution, img_height) ==
    IF Len(ring) < 3 THEN st
    ELSE RingLoop(st,
                  [i \in 1 .. Len(ring) |->
                      world_to_screen(ring[i][1], ring[i][2], bbox,
                                      resolution, img_height)],
                  1, resolution)

RECURSIVE InteriorsLoop(_, _, _, _, _, _)
InteriorsLoop(st, interiors, i, bbox, resolution, img_height) ==
    IF i > Len(interiors) THEN st
    ELSE InteriorsLoop(extract_from_ring(st, interiors[i], bbox, resolution,
                                         img_height),
                       interiors, i + 1, bbox, resolution, img_height)

extract_from_polygon(st, polygon, bbox, resolution, img_height) ==
    InteriorsLoop(extract_from_ring(st, polygon.exterior, bbox, resolution,
                                    img_height),
                  polygon.interiors, 1, bbox, resolution, img_height)

RECURSIVE BuildGET(_, _, _, _, _, _)
BuildGET(st, m, i, bbox, resolution, img_height) ==
    IF i > Len(m) THEN st
    ELSE BuildGET(extract_from_polygon(st, m[i], bbox, resolution, img_height),
                  m, i + 1, bbox, resolution, img_height)

(***************************************************************************)
(* One scanline of a band (render.rs, the body of `for y in 0..y_end`).    *)
(***************************************************************************)
\* a.x_current <= b.x_current
XLeq(a, b) == a.x_num * b.x_den <= b.x_num * a.x_den

\* The stable sort_by on x_current, by insertion.
RECURSIVE InsertSorted(_, _)
InsertSorted(sorted, e) ==
    IF sorted = << >> THEN << e >>
    ELSE IF XLeq(sorted[Len(sorted)], e) THEN Append(sorted, e)
    ELSE Append(InsertSorted(SubSeq(sorted, 1, Len(sorted) - 1), e),
                sorted[Len(sorted)])

RECURSIVE SortAET(_, _)
SortAET(aet, n) ==
    IF n = 0 THEN << >> ELSE InsertSorted(SortAET(aet, n - 1), aet[n])

RetainedMutGeq(e, y) == e.y_max >= y

Retained(e, y) == e.y_max > y

\* The AET when row y is reached: the GET row appended, ended edges removed,
\* and, in a row of the band's own, sorted.
RowAET(aet, entries, y, h, own) ==
    LET added == IF y < h /\ y < Len(entries) THEN aet \o entries[y + 1]
                 ELSE aet
        kept  == SelectSeq(added, LAMBDA e : Retained(e, y))
    IN IF own THEN SortAET(kept, Len(kept)) ELSE kept

\* x_current += inv_slope for every edge.
Advance(aet) ==
    [i \in 1 .. Len(aet) |-> [aet[i] EXCEPT !.x_num = @ + aet[i].s_num]]

SpanMutNoClamp(e1, e2, w) ==
    LET x_start == Max(Round(e1.x_num, e1.x_den), 0)
        x_end   == Max(Round(e2.x_num, e2.x_den), 0)
    IN IF x_start >= x_end THEN << >>
       ELSE [i \in 1 .. x_end - x_start |-> x_start + i - 1]

\* The columns one pair (e1, e2) fills.  x_start is an i32 cast to u32: a
\* negative one (width 0) is above every x_end, so the range is empty.
SpanColumns(e1, e2, w) ==
    LET x_start == Min(Max(Round(e1.x_num, e1.x_den), 0), w - 1)
        x_end   == Min(Max(Round(e2.x_num, e2.x_den), 0), w)
    IN IF x_start < 0 \/ x_start >= x_end THEN << >>
       ELSE [i \in 1 .. x_end - x_start |-> x_start + i - 1]

\* The pixels of row y composited for a sorted AET, in order: the pairs
\* (e1, e2), (e3, e4), ..., an unpaired last edge being dropped.
RECURSIVE RowPixels(_, _, _, _)
RowPixels(aet, k, y, w) ==
    IF k + 1 > Len(aet) THEN << >>
    ELSE LET cols == SpanColumns(aet[k], aet[k + 1], w)
         IN [i \in 1 .. Len(cols) |-> << cols[i], y >>]
            \o RowPixels(aet, k + 2, y, w)

RECURSIVE BlendAll(_, _, _, _)
BlendAll(img, pixels, i, color) ==
    IF i > Len(pixels) THEN img
    ELSE BlendAll(blend_pixel(img, pixels[i][1], pixels[i][2], color),
                  pixels, i + 1, color)

\* Rows y .. y_to - 1 of a band that are not its own: only its AET changes.
RECURSIVE PreRoll(_, _, _, _, _)
PreRoll(aet, entries, y, y_to, h) ==
    IF y >= y_to THEN aet
    ELSE PreRoll(Advance(RowAET(aet, entries, y, h, FALSE)), entries,
                 y + 1, y_to, h)


(***************************************************************************)
(* The stroke pass (render.rs, draw_line and its callers), as the sequence *)
(* of pixels it composites, in the order of the code's loops.              *)
(***************************************************************************)
Abs(a) == IF a >= 0 THEN a ELSE 0 - a

BrushMutCentre(x, y, half_width, w, h) ==
    IF x >= 0 /\ x < w /\ y >= 0 /\ y < h THEN << << x, y >> >> ELSE << >>

\* The square brush around (x, y): wx outer, wy inner, image pixels only.
BrushPixels(x, y, half_width, w, h) ==
    LET side == 2 * half_width + 1
        all  == [i \in 1 .. side * side |->
                    << x - half_width + ((i - 1) \div side),
                       y - half_width + ((i - 1) % side) >>]
    IN SelectSeq(all, LAMBDA q : q[1] >= 0 /\ q[1] < w /\ q[2] >= 0 /\ q[2] < h)

\* The `loop` of draw_line from the point (x, y) on.
RECURSIVE LinePixels(_, _, _, _, _, _, _, _, _)
LinePixels(x, y, err, x1, y1, d, half_width, w, h) ==
    BrushPixels(x, y, half_width, w, h) \o
    (IF x = x1 /\ y = y1 THEN << >>
     ELSE LET e2 == 2 * err
              sx == IF e2 >= d[2] THEN d[3] ELSE 0
              sy == IF e2 <= d[1] THEN d[4] ELSE 0
          IN LinePixels(x + sx, y + sy,
                        err + (IF e2 >= d[2] THEN d[2] ELSE 0)
                            + (IF e2 <= d[1] THEN d[1] ELSE 0),
                        x1, y1, d, half_width, w, h))

\* draw_line(from, to, color, width) for screen points over `resolution`.
draw_line(from, to, stroke_width, resolution, w, h) ==
    LET x0 == Trunc(from[1], resolution)
        y0 == Trunc(from[2], resolution)
        x1 == Trunc(to[1], resolution)
        y1 == Trunc(to[2], resolution)
        dx == Abs(x1 - x0)
        dy == 0 - Abs(y1 - y0)
        sx == IF x0 < x1 THEN 1 ELSE -1
        sy == IF y0 < y1 THEN 1 ELSE -1
    IN LinePixels(x0, y0, dx + dy, x1, y1, << dx, dy, sx, sy >>,
                  stroke_width \div 2, w, h)

\* draw_linestring: one draw_line per window of two consecutive vertices.
RECURSIVE WindowsLoop(_, _, _, _, _, _)
WindowsLoop(sc, i, stroke_width, resolution, w, h) ==
    IF i + 1 > Len(sc) THEN << >>
    ELSE draw_line(sc[i], sc[i + 1], stroke_width, resolution, w, h)
         \o WindowsLoop(sc, i + 1, stroke_width, resolution, w, h)

draw_linestring(ring, cfg, w, h) ==
    WindowsLoop([i \in 1 .. Len(ring) |->
                    world_to_screen(ring[i][1], ring[i][2], cfg.bbox,
                                    cfg.resolution, h)],
                1, cfg.stroke_width, cfg.resolution, w, h)

RECURSIVE InteriorsStroke(_, _, _, _, _)
InteriorsStroke(interiors, i, cfg, w, h) ==
    IF i > Len(interiors) THEN << >>
    ELSE draw_linestring(interiors[i], cfg, w, h)
         \o InteriorsStroke(interiors, i + 1, cfg, w, h)

\* render_polygon_stroke: the exterior ring, then the interior rings.
render_polygon_stroke(polygon, cfg, w, h) ==
    draw_linestring(polygon.exterior, cfg, w, h)
    \o InteriorsStroke(polygon.interiors, 1, cfg, w, h)

StrokeColor(cfg) == << cfg.stroke[1], cfg.stroke[2], cfg.stroke[3], 255 >>


(***************************************************************************)
(* The Renderer (render.rs) and the task that drives it (main.rs).         *)
(***************************************************************************)
VARIABLES
    config,          \* the RenderConfig handed to Renderer::new
    threads,         \* rayon::current_num_threads()
    inputs,          \* the MultiPolygons the driving task may render
    budget,          \* how many render_multipolygon calls the driver makes
    rstate,          \* "none": not constructed; "ok": a Renderer; "err"
                     \* ("start": the RenderConfig is not yet determined)
    width, height,   \* Renderer.width, Renderer.height
    image,           \* the RgbaImage behind Renderer.image
    error,           \* << >>, or << e >> for Err(e) of Renderer::new or save
    phase,           \* where the driving task is: "idle", "fill", "stroke"
                     \* ("blend", "blended": a bare blend_pixel call;
                     \* "failed": the run has ended on an error of save)
    mp,              \* the argument of the running render_multipolygon
    scanline_table,  \* its Global Edge Table
    bands,           \* bands[i]: row and AET of the closure of band i - 1
    strokers,        \* strokers[k]: pixels polygon k has still to stroke
    file,            \* << >>, or << png >> for the file written by save
    renders,         \* render_multipolygon calls begun
    saves,           \* save calls since the last render_multipolygon
    pre,             \* history: the image when the running call began
    fillSet,         \* history: pixels the fill pass of the call composited
    strokeSet,       \* history: pixels the stroke pass of the call composited
    bandWrites,      \* history: << band_idx, pixel >> for each fill composite
    arg,             \* the argument of a function called on its own
    ret              \* << >>, or << r >> once that function has returned r

vars == << config, threads, inputs, budget, rstate, width, height, image,
           error, phase, mp, scanline_table, bands, strokers, file, renders,
           saves, pre, fillSet, strokeSet, bandWrites, arg, ret >>

MAX_DIMENSION == 20000

MaxThreads == 2

MaxRenders == 1

MaxScenarioRenders == 2

MaxSaves == 2

TooLargeMutGeq(w, h) == w >= MAX_DIMENSION \/ h >= MAX_DIMENSION

\* render.rs:55
TooLarge(w, h) == w > MAX_DIMENSION \/ h > MAX_DIMENSION

\* Renderer::new(config)
RendererNew ==
    /\ rstate = "none"
    /\ LET wh == calculate_dimensions(config.bbox, config.resolution) IN
       IF TooLarge(wh[1], wh[2])
       THEN /\ rstate' = "err"
            /\ error' = << [kind |-> "ImageTooLarge", width |-> wh[1],
                            height |-> wh[2], max |-> MAX_DIMENSION] >>
            /\ UNCHANGED << width, height, image, pre >>
       ELSE /\ rstate' = "ok"
            /\ width' = wh[1]
            /\ height' = wh[2]
            /\ image' = from_pixel(wh[1], wh[2], Transparent)
            /\ pre' = image'
            /\ UNCHANGED error
    /\ UNCHANGED << config, threads, inputs, budget, phase, mp,
                    scanline_table, bands, strokers, file, renders, saves,
                    fillSet, strokeSet >>
    /\ UNCHANGED << bandWrites, arg, ret >>

\* Renderer::dimensions()
dimensions == << width, height >>

num_bands == Max(threads, 1) * 4

BandHeightMutFloor == height \div num_bands

\* (self.height as usize).div_ceil(num_bands)
band_height == (height + num_bands - 1) \div num_bands

\* The rows [y_start, y_end) of the band with index band_idx.
BandRange(band_idx) ==
    [y_start |-> band_idx * band_height,
     y_end   |-> Min((band_idx + 1) * band_height, height)]

BandFirstRowMutOwn(band_idx) == BandRange(band_idx).y_start

\* `for y in 0..y_end`: every band scans from row 0.
BandFirstRow(band_idx) == 0

\* The closure of band i - 1 has returned.
BandDone(i) ==
    \/ BandRange(i - 1).y_start >= BandRange(i - 1).y_end
    \/ bands[i].y >= BandRange(i - 1).y_end

\* render_multipolygon(mp), up to the start of the parallel band loop.
BeginRender(m) ==
    /\ rstate = "ok"
    /\ phase = "idle"
    /\ renders < budget
    /\ mp' = m
    /\ scanline_table' = BuildGET(ScanlineTable_new(0, height), m, 1,
                                  config.bbox, config.resolution, height)
    /\ bands' = [i \in 1 .. num_bands |->
                    [y |-> BandFirstRow(i - 1), aet |-> << >>]]
    /\ strokers' = << >>
    /\ phase' = "fill"
    /\ renders' = renders + 1
    /\ saves' = 0
    /\ pre' = image
    /\ fillSet' = {}
    /\ strokeSet' = {}
    /\ UNCHANGED << config, threads, inputs, budget, rstate, width, height,
                    image, error, file >>
    /\ bandWrites' = {}
    /\ UNCHANGED << arg, ret >>

\* One step of the closure of band i - 1: the loop body for its next own
\* row, under the image lock, after the rows before it that are not its own
\* (those change nothing but the closure's AET).
BandStep(i) ==
    /\ ~BandDone(i)
    /\ LET y   == Max(bands[i].y, BandRange(i - 1).y_start)
           a0  == PreRoll(bands[i].aet, scanline_table.entries, bands[i].y,
                          y, height)
           row == RowAET(a0, scanline_table.entries, y, height, TRUE)
           px  == RowPixels(row, 1, y, width)
       IN /\ image' = BlendAll(image, px, 1, config.fill)
          /\ bands' = [bands EXCEPT ![i] = [y |-> y + 1, aet |-> Advance(row)]]
          /\ fillSet' = fillSet \cup {px[k] : k \in 1 .. Len(px)}
          /\ bandWrites' = bandWrites
                               \cup {<< i - 1, px[k] >> : k \in 1 .. Len(px)}
    /\ UNCHANGED << config, threads, inputs, budget, rstate, width, height,
                    error, phase, mp, scanline_table, strokers, file,
                    renders, saves, pre, strokeSet >>
    /\ UNCHANGED << arg, ret >>

FillJoinedMutNoWait == TRUE

\* into_par_iter().for_each returns once every band closure has returned.
FillJoined == \A i \in DOMAIN bands : BandDone(i)

\* The driving task leaves the band loop; with stroke_width > 0 it starts
\* the per-polygon stroke loop, else render_multipolygon returns.
FillJoin ==
    /\ phase = "fill"
    /\ FillJoined
    /\ IF config.stroke_width > 0
       THEN /\ phase' = "stroke"
            /\ strokers' = [k \in 1 .. Len(mp) |->
                               render_polygon_stroke(mp[k], config, width,
                                                     height)]
       ELSE /\ phase' = "idle"
            /\ UNCHANGED strokers
    /\ UNCHANGED << config, threads, inputs, budget, rstate, width, height,
                    image, error, mp, scanline_table, bands, file, renders,
                    saves, pre, fillSet, strokeSet >>
    /\ UNCHANGED << bandWrites, arg, ret >>

\* One pixel of the stroke of polygon k: lock, blend_pixel, unlock.
StrokeStep(k) ==
    /\ phase = "stroke"
    /\ strokers[k] # << >>
    /\ image' = blend_pixel(image, Head(strokers[k])[1], Head(strokers[k])[2],
                            StrokeColor(config))
    /\ strokers' = [strokers EXCEPT ![k] = Tail(@)]
    /\ strokeSet' = strokeSet \cup {Head(strokers[k])}
    /\ UNCHANGED << config, threads, inputs, budget, rstate, width, height,
                    error, phase, mp, scanline_table, bands, file, renders,
                    saves, pre, fillSet >>
    /\ UNCHANGED << bandWrites, arg, ret >>

\* par_bridge().for_each returns; render_multipolygon returns.
StrokeJoin ==
    /\ phase = "stroke"
    /\ \A k \in DOMAIN strokers : strokers[k] = << >>
    /\ phase' = "idle"
    /\ UNCHANGED << config, threads, inputs, budget, rstate, width, height,
                    image, error, mp, scanline_table, bands, strokers, file,
                    renders, saves, pre, fillSet, strokeSet >>
    /\ UNCHANGED << bandWrites, arg, ret >>

\* The PNG encoding of the buffer: RGBA8, lossless.
png_encode(w, h, img) == [width |-> w, height |-> h, pixels |-> img]

SaveMutDrain(img) == [xy \in DOMAIN img |-> Transparent]

\* The buffer after save(&self): the lock guard only reads it.
ImageAfterSave(img) == img

\* Renderer::save(path)
Save ==
    /\ rstate = "ok"
    /\ phase = "idle"
    /\ saves < MaxSaves
    /\ file' = << png_encode(width, height, image) >>
    /\ image' = ImageAfterSave(image)
    /\ saves' = saves + 1
    /\ UNCHANGED << config, threads, inputs, budget, rstate, width, height,
                    error, phase, mp, scanline_table, bands, strokers,
                    renders, pre, fillSet, strokeSet >>
    /\ UNCHANGED << bandWrites, arg, ret >>

\* What a failed img.save(path) leaves at the path: File::create has
\* truncated the file and the encoder has written a part of the stream.
Truncated(png) == [truncated |-> png]

\* How img.save(path) fails: "create" is File::create failing, "write" a
\* failing write of the encoder's output (a full disk, an I/O error).
SaveOutcomes == {"create", "write"}

\* Renderer::save(path) returning Err: `?` hands the error to the caller,
\* and process_layer / process_geojson hand it on, so the run ends.
SaveFail(outcome) ==
    /\ rstate = "ok"
    /\ phase = "idle"
    /\ file' = IF outcome = "create" THEN file
               ELSE << Truncated(png_encode(width, height, image)) >>
    /\ error' = << [kind |-> "Image", cause |-> outcome] >>
    /\ phase' = "failed"
    /\ UNCHANGED << config, threads, inputs, budget, rstate, width, height,
                    image, mp, scanline_table, bands, strokers, renders,
                    saves, pre, fillSet, strokeSet >>
    /\ UNCHANGED << bandWrites, arg, ret >>

\* blend_pixel called on its own, on the pixel (0, 0) of a 1 x 1 image.
BlendCall ==
    /\ phase = "blend"
    /\ image' = blend_pixel(image, 0, 0, config.fill)
    /\ phase' = "blended"
    /\ UNCHANGED << config, threads, inputs, budget, rstate, width, height,
                    error, mp, scanline_table, bands, strokers, file,
                    renders, saves, pre, fillSet, strokeSet >>
    /\ UNCHANGED << bandWrites, arg, ret >>


(***************************************************************************)
(* Inputs.                                                                 *)
(***************************************************************************)
\* A closed rectangular ring, as geo::Polygon::new keeps it.
Rect(x0, y0, x1, y1) ==
    << << x0, y0 >>, << x1, y0 >>, << x1, y1 >>, << x0, y1 >>, << x0, y0 >> >>

Poly(ext, ints) == [exterior |-> ext, interiors |-> ints]

RenderConfig(bbox, resolution, fill, stroke, stroke_width) ==
    [bbox |-> bbox, resolution |-> resolution, fill |-> fill,
     stroke |-> stroke, stroke_width |-> stroke_width]

\* The state before Renderer::new, for a configuration and a driver.
Unbuilt(cfg, thr, inp, bud) ==
    /\ config = cfg
    /\ threads = thr
    /\ inputs = inp
    /\ budget = bud
    /\ rstate = "none"
    /\ width = 0
    /\ height = 0
    /\ image = << >>
    /\ error = << >>
    /\ phase = "idle"
    /\ mp = << >>
    /\ scanline_table = ScanlineTable_new(0, 0)
    /\ bands = << >>
    /\ strokers = << >>
    /\ file = << >>
    /\ renders = 0
    /\ saves = 0
    /\ pre = << >>
    /\ fillSet = {}
    /\ strokeSet = {}
    /\ bandWrites = {}

\* No function is called on its own.
NoCall == arg = << >> /\ ret = << >>

\* Renderer::new alone.  Extents and resolutions in one unit; an accepted
\* image has one small side, so that its buffer can be enumerated.
BigExtents == {19999, 20000, 20001, 40000, 40001, 60000, 60001, 1000000}

NewExtents ==
    (BigExtents \X {1}) \cup ({1} \X BigExtents)
    \cup {<< 100, 100 >>, << 10, 10 >>, << 3, 4 >>, << 4, 1 >>,
          << 60001, 60001 >>, << 1000000, 1000000 >>}

NewConfigs ==
    { RenderConfig(Bbox_new(o, 0 - o, o + wh[1], wh[2] - o), r,
                   << 255, 0, 0, 128 >>, << 255, 0, 0 >>, 1) :
        o \in {0, 45}, wh \in NewExtents, r \in {1, 2, 3} }

InitNew == \E cfg \in NewConfigs : Unbuilt(cfg, 1, {}, 0) /\ NoCall

NextNew == RendererNew

SpecNew == InitNew /\ [][NextNew]_vars

\* blend_pixel alone: a destination pixel and a source colour.
DstChannels == {0, 1, 128, 255}

SrcColors ==
    { << c[1], c[2], c[3], a >> :
        c \in {<< 0, 0, 0 >>, << 255, 0, 0 >>, << 12, 200, 77 >>},
        a \in {0, 128, 255} }

InitBlend ==
    \E r \in DstChannels, g \in DstChannels, b \in DstChannels,
       a \in DstChannels, src \in SrcColors :
        /\ config = RenderConfig(Bbox_new(0, 0, 1, 1), 1, src,
                                 << 0, 0, 0 >>, 0)
        /\ threads = 1
        /\ inputs = {}
        /\ budget = 0
        /\ rstate = "ok"
        /\ width = 1
        /\ height = 1
        /\ image = from_pixel(1, 1, << r, g, b, a >>)
        /\ error = << >>
        /\ phase = "blend"
        /\ mp = << >>
        /\ scanline_table = ScanlineTable_new(0, 0)
        /\ bands = << >>
        /\ strokers = << >>
        /\ file = << >>
        /\ renders = 0
        /\ saves = 0
        /\ pre = image
        /\ fillSet = {}
        /\ strokeSet = {}
        /\ bandWrites = {}
        /\ NoCall

NextBlend == BlendCall

SpecBlend == InitBlend /\ [][NextBlend]_vars

\* Rendering in a 5 x 5 window.  Latitudes grow upward: row = 5 - lat.
Window5 == Bbox_new(0, 0, 5, 5)

Window5Half == Bbox_new(0, 0, 10, 10)

Red == << 255, 0, 0, 255 >>

RedHalf == << 255, 0, 0, 128 >>

Green == << 0, 255, 0, 255 >>

Blue == << 0, 0, 255 >>

RenderConfigs ==
    { RenderConfig(Window5, 1, Red, Blue, 0),
      RenderConfig(Window5, 1, RedHalf, Blue, 0),
      RenderConfig(Window5, 1, Green, Blue, 1),
      RenderConfig(Window5Half, 2, RedHalf, Blue, 0) }

ShapeRect == << Poly(Rect(1, 1, 4, 4), << >>) >>

ShapeHole == << Poly(Rect(0, 0, 5, 5), << Rect(1, 1, 4, 4) >>) >>

\* The exterior ring reaches above the window; the hole lies inside it.
ShapeTopHole == << Poly(Rect(0, 0, 5, 7), << Rect(1, 1, 4, 4) >>) >>

ShapeTriangle ==
    << Poly(<< << 0, 0 >>, << 2, 0 >>, << 0, 4 >>, << 0, 0 >> >>, << >>) >>

ShapeTwo ==
    << Poly(Rect(0, 3, 2, 5), << >>), Poly(Rect(3, 0, 5, 2), << >>) >>

\* Rings of fewer than 3 coordinates; Polygon::new leaves them as they
\* are, their first and last coordinate being equal.
ShapeDot == << Poly(<< << 2, 2 >>, << 2, 2 >> >>, << >>) >>

ShapeOne == << Poly(<< << 2, 2 >> >>, << >>) >>

Shapes ==
    {ShapeRect, ShapeHole, ShapeTopHole, ShapeTriangle, ShapeTwo, ShapeDot,
     ShapeOne}

Init ==
    \E cfg \in RenderConfigs, thr \in 1 .. MaxThreads :
        Unbuilt(cfg, thr, Shapes, MaxRenders) /\ NoCall

Next ==
    \/ RendererNew
    \/ \E m \in inputs : BeginRender(m)
    \/ \E i \in DOMAIN bands : BandStep(i)
    \/ FillJoin
    \/ \E k \in DOMAIN strokers : StrokeStep(k)
    \/ StrokeJoin
    \/ Save
    \/ \E outcome \in SaveOutcomes : SaveFail(outcome)

Spec == Init /\ [][Next]_vars

\* The scenarios of the specification, in the window (0, 0, 10, 10) at
\* resolution 1: one MultiPolygon, rendered up to MaxScenarioRenders times.
Window10 == Bbox_new(0, 0, 10, 10)

Square == << Poly(Rect(2, 2, 8, 8), << >>) >>

SquareHole == << Poly(Rect(2, 2, 8, 8), << Rect(4, 4, 6, 6) >>) >>

Scenarios ==
    { << RenderConfig(Window10, 1, Red, << 0, 0, 0 >>, 0), Square >>,
      << RenderConfig(Window10, 1, Red, << 0, 0, 0 >>, 0), SquareHole >>,
      << RenderConfig(Window10, 1, RedHalf, << 0, 0, 0 >>, 0), Square >>,
      << RenderConfig(Window10, 1, RedHalf, Blue, 1), Square >> }

InitScenario ==
    \E sc \in Scenarios, thr \in 1 .. MaxThreads :
        Unbuilt(sc[1], thr, {sc[2]}, MaxScenarioRenders) /\ NoCall

SpecScenario == InitScenario /\ [][Next]_vars


(***************************************************************************)
(* Properties.                                                             *)
(***************************************************************************)
\* n = ceil(num / den), for den > 0.
IsCeil(n, num, den) == n * den >= num /\ (n - 1) * den < num

\* C1: when ceil(bbox.width / resolution) and ceil(bbox.height / resolution)
\* are both at most 20000, Renderer::new returns Ok, dimensions() is exactly
\* that pair, and every pixel of the new buffer is transparent.
C1_Dimensions ==
    ( /\ rstate # "none"
      /\ Bbox_width(config.bbox) <= MAX_DIMENSION * config.resolution
      /\ Bbox_height(config.bbox) <= MAX_DIMENSION * config.resolution )
    => /\ rstate = "ok"
       /\ IsCeil(dimensions[1], Bbox_width(config.bbox), config.resolution)
       /\ IsCeil(dimensions[2], Bbox_height(config.bbox), config.resolution)
       /\ DOMAIN image = (0 .. dimensions[1] - 1) \X (0 .. dimensions[2] - 1)
       /\ image = [xy \in DOMAIN image |-> << 0, 0, 0, 0 >>]

\* A renderer of exactly MAX_DIMENSION columns; the height is rounded up.
C1_Witness ==
    /\ rstate = "ok"
    /\ config.resolution = 3
    /\ dimensions = << 20000, 1 >>

\* C2: Renderer::new fails, with ImageTooLarge carrying the computed
\* dimensions and max 20000, exactly when a computed side exceeds 20000; a
\* side of exactly 20000 is accepted; a failure leaves no renderer or buffer.
C2_TooLarge ==
    rstate # "none" =>
        LET bw == Bbox_width(config.bbox)
            bh == Bbox_height(config.bbox)
            r  == config.resolution
        IN /\ (rstate = "err") <=> (bw > 20000 * r \/ bh > 20000 * r)
           /\ rstate = "err" =>
                  /\ Len(error) = 1
                  /\ error[1].kind = "ImageTooLarge"
                  /\ IsCeil(error[1].width, bw, r)
                  /\ IsCeil(error[1].height, bh, r)
                  /\ error[1].max = 20000
                  /\ image = << >>
                  /\ dimensions = << 0, 0 >>
           /\ rstate = "ok" => error = << >>

\* A rejection by one column, the other side within the limit.
C2_Witness ==
    /\ rstate = "err"
    /\ error[1].width = 20001
    /\ error[1].height = 1

\* C3: blend_pixel with a source of alpha 0 leaves the destination pixel
\* identical in all four channels.
C3_OverIdentity ==
    (phase = "blended" /\ config.fill[4] = 0) => image = pre

\* C4: blend_pixel with a source (Sr, Sg, Sb, 255) leaves exactly that
\* colour in the destination pixel.
C4_FullOpacity ==
    (phase = "blended" /\ config.fill[4] = 255)
    => get_pixel(image, 0, 0) = config.fill

\* An opaque source over a half-transparent destination.
C4_Witness ==
    /\ phase = "blended"
    /\ config.fill = << 12, 200, 77, 255 >>
    /\ get_pixel(pre, 0, 0) = << 255, 128, 1, 128 >>
    /\ get_pixel(image, 0, 0) = << 12, 200, 77, 255 >>

\* The ring projected by world_to_screen (numerators over the resolution).
Projected(ring) ==
    [i \in 1 .. Len(ring) |->
        world_to_screen(ring[i][1], ring[i][2], config.bbox,
                        config.resolution, height)]

\* The ray from q to the right crosses the segment a-b.
RayCrosses(q, a, b) ==
    /\ (a[2] > q[2]) # (b[2] > q[2])
    /\ IF b[2] > a[2]
       THEN (q[1] - a[1]) * (b[2] - a[2]) < (q[2] - a[2]) * (b[1] - a[1])
       ELSE (q[1] - a[1]) * (b[2] - a[2]) > (q[2] - a[2]) * (b[1] - a[1])

OnSegment(q, a, b) ==
    /\ (b[1] - a[1]) * (q[2] - a[2]) = (b[2] - a[2]) * (q[1] - a[1])
    /\ Min(a[1], b[1]) <= q[1] /\ q[1] <= Max(a[1], b[1])
    /\ Min(a[2], b[2]) <= q[2] /\ q[2] <= Max(a[2], b[2])

\* The closed ring sc has the point q strictly inside.
Encloses(sc, q) ==
    /\ Cardinality({i \in 1 .. Len(sc) - 1 : RayCrosses(q, sc[i], sc[i + 1])})
           % 2 = 1
    /\ \A i \in 1 .. Len(sc) - 1 : ~OnSegment(q, sc[i], sc[i + 1])

\* The ring has the whole cell of pixel (x, y) strictly inside (the rings
\* of the inputs are convex: the four corners decide).
FullyEncloses(ring, x, y) ==
    \A cx \in {x, x + 1}, cy \in {y, y + 1} :
        Encloses(Projected(ring),
                 << cx * config.resolution, cy * config.resolution >>)

CallReturned == renders > 0 /\ phase = "idle"

\* C5: after render_multipolygon of a polygon with a hole, every pixel the
\* hole fully encloses has the value it had before the call.
C5_HoleLaw ==
    (CallReturned /\ Len(mp) = 1 /\ Len(mp[1].interiors) > 0) =>
        \A xy \in DOMAIN image :
            (\E k \in 1 .. Len(mp[1].interiors) :
                FullyEncloses(mp[1].interiors[k], xy[1], xy[2]))
            => image[xy] = pre[xy]

\* The sorted AET of row y in a band of all the rows: the loop of
\* render_multipolygon with y_start = 0 and y_end = height.
RECURSIVE OneBandAET(_)
OneBandAET(y) ==
    RowAET(IF y = 0 THEN << >> ELSE Advance(OneBandAET(y - 1)),
           scanline_table.entries, y, height, TRUE)

\* The image that band leaves: row y is written in its step y only.
OneBandFill ==
    LET rows == [y \in 0 .. height - 1 |->
                    BlendAll(pre, RowPixels(OneBandAET(y), 1, y, width), 1,
                             config.fill)]
    IN [xy \in DOMAIN pre |-> rows[xy[2]][xy]]

FillPassOver ==
    /\ renders > 0
    /\ \A i \in DOMAIN bands : BandDone(i)
    /\ strokeSet = {}

\* C6: when the fill pass is over, the image is the one a single band gives,
\* for every number of bands and every order of the band steps.
C6_BandEquivalence ==
    FillPassOver => image = OneBandFill

\* Eight bands have filled a triangle with a sloped edge.
C6_Witness ==
    /\ FillPassOver
    /\ threads = 2
    /\ mp = ShapeTriangle
    /\ image # pre

\* Ring j of polygon k of the running call: 0 is the exterior ring.
RingOf(k, j) == IF j = 0 THEN mp[k].exterior ELSE mp[k].interiors[j]

\* The edges of all the rings, by polygon, ring and first vertex.
EdgeKeys ==
    UNION { UNION { {<< k, j, i >> : i \in 1 .. Len(RingOf(k, j))} :
                    j \in 0 .. Len(mp[k].interiors) } :
            k \in 1 .. Len(mp) }

\* The edge t crosses row y to the right of column x, by the scan's own
\* conventions: an edge spans the rows from round(y_start) to round(y_end),
\* the last excluded, and lies at column round(x_current).
CrossesRightOf(t, x, y) ==
    LET sc == Projected(RingOf(t[1], t[2]))
        p1 == sc[t[3]]
        p2 == sc[(t[3] % Len(sc)) + 1]
        e  == Edge_new(p1, p2, config.resolution)
        y0 == Round(Min(p1[2], p2[2]), config.resolution)
    IN /\ Len(sc) >= 3
       /\ e # << >>
       /\ y0 <= y
       /\ e[1].y_max > y
       /\ Round(e[1].x_num + (y - y0) * e[1].s_num, e[1].x_den) > x

OddCrossings(x, y) ==
    Cardinality({t \in EdgeKeys : CrossesRightOf(t, x, y)}) % 2 = 1

\* C7: the fill pass composites a pixel if and only if the horizontal ray
\* from it crosses an odd number of ring edges, wherever the rings lie; a
\* rectangle inside the window, opaque fill, no stroke, on a blank image
\* gives the fill colour inside and (0,0,0,0) outside.
C7_EvenOdd ==
    FillPassOver =>
        /\ \A xy \in DOMAIN image :
               (xy \in fillSet) <=> OddCrossings(xy[1], xy[2])
        /\ ( /\ mp = ShapeRect
             /\ config = RenderConfig(Window5, 1, Red, Blue, 0)
             /\ pre = from_pixel(width, height, Transparent) )
           => \A xy \in DOMAIN image :
                  image[xy] = IF /\ 1 <= xy[1] /\ xy[1] < 4
                                 /\ 1 <= xy[2] /\ xy[2] < 4
                              THEN Red ELSE Transparent

TwiceRendered ==
    /\ config.fill = RedHalf
    /\ config.stroke_width = 0
    /\ mp = Square
    /\ renders = 2
    /\ phase = "idle"

\* C8 as stated: after the square is rendered twice with fill
\* (255,0,0,128) and no stroke, pixel (5,5) has alpha 190, R within one of
\* 255, and G = B = 0.
C8_Stated ==
    TwiceRendered =>
        LET p == get_pixel(image, 5, 5)
        IN p[4] = 190 /\ p[1] >= 254 /\ p[2] = 0 /\ p[3] = 0

\* C8: after the square is rendered twice with fill (255,0,0,128) and no
\* stroke, pixel (5,5) is (254,0,0,191): alpha floor(255 * 0.75196) = 191.
C8_Additive ==
    TwiceRendered => get_pixel(image, 5, 5) = << 254, 0, 0, 191 >>

\* The second call has composited over the first one's result.
C8_Witness ==
    /\ TwiceRendered
    /\ get_pixel(pre, 5, 5) = << 254, 0, 0, 128 >>
    /\ get_pixel(image, 5, 5)[4] = 191

\* C9: a save changes neither the buffer, the configuration nor the
\* dimensions; it writes the encoding of the buffer, so a second save with
\* no render in between writes the same file; the renderer stays usable,
\* with render_multipolygon and save both callable.
C9_SaveFrame ==
    [][ (saves' = saves + 1) =>
            /\ image' = image
            /\ config' = config
            /\ dimensions' = dimensions
            /\ file' = << png_encode(width, height, image) >>
            /\ (saves >= 1 => file' = file)
            /\ rstate' = "ok"
            /\ phase' = "idle" ]_vars

\* Saved twice after a render that painted something.
C9_Witness ==
    /\ saves = 2
    /\ renders = 1
    /\ phase = "idle"
    /\ fillSet # {}
    /\ image # from_pixel(width, height, Transparent)
    /\ file = << png_encode(width, height, image) >>

\* C17: when the write of the PNG fails, the error is returned and no
\* partial file is left at the output path.
C17_NoPartialFile ==
    phase = "failed" =>
        /\ error # << >>
        /\ file = << >> \/ "truncated" \notin DOMAIN file[1]

\* C19: render_multipolygon of a polygon whose only ring has fewer than 3
\* points changes no pixel, whatever the stroke width.
C19_ShortRingIgnored ==
    (CallReturned /\ Len(mp) = 1 /\ mp[1].interiors = << >>
       /\ Len(mp[1].exterior) < 3) =>
        image = pre

\* C10: within a call, a stroke pixel is composited only when every fill
\* band has finished, and only with stroke_width > 0; with stroke_width 0
\* the call never strokes.
C10_FillThenStroke ==
    /\ strokeSet # {} =>
           /\ config.stroke_width > 0
           /\ \A i \in DOMAIN bands : BandDone(i)
    /\ config.stroke_width = 0 => (strokeSet = {} /\ phase # "stroke")

\* The stroke has begun over a finished fill.
C10_Witness ==
    /\ phase = "stroke"
    /\ strokeSet # {}
    /\ fillSet # {}
    /\ \E k \in DOMAIN strokers : strokers[k] # << >>


(***************************************************************************)
(* Command line (src/src/cli.rs).  A string is the sequence of its         *)
(* characters.  An f64 is [k |-> "num", n |-> n, d |-> d] for the decimal  *)
(* n / d written without trailing zeros, [k |-> "nan"], or                 *)
(* [k |-> "inf", neg |-> b]; the decimals used are far from each other, so *)
(* that their f64 values compare as they do.                               *)
(***************************************************************************)
rendererVars ==
    << config, threads, inputs, budget, rstate, width, height, image, error,
       phase, mp, scanline_table, bands, strokers, file, renders, saves, pre,
       fillSet, strokeSet, bandWrites >>

Ok(v) == [ok |-> TRUE, val |-> v]

Err(kind, msg) == [ok |-> FALSE, err |-> [kind |-> kind, msg |-> msg]]

\* str::trim for the one whitespace character of the inputs.
RECURSIVE trim_start(_)
trim_start(s) ==
    IF s # << >> /\ Head(s) = " " THEN trim_start(Tail(s)) ELSE s

RECURSIVE trim_end(_)
trim_end(s) ==
    IF s # << >> /\ s[Len(s)] = " "
    THEN trim_end(SubSeq(s, 1, Len(s) - 1)) ELSE s

trim(s) == trim_end(trim_start(s))

\* str::split(sep).collect(): n separators give n + 1 parts.
RECURSIVE SplitLoop(_, _, _, _, _)
SplitLoop(s, sep, i, cur, parts) ==
    IF i > Len(s) THEN Append(parts, cur)
    ELSE IF s[i] = sep
         THEN SplitLoop(s, sep, i + 1, << >>, Append(parts, cur))
         ELSE SplitLoop(s, sep, i + 1, Append(cur, s[i]), parts)

split(s, sep) == SplitLoop(s, sep, 1, << >>, << >>)

Digits == << "0", "1", "2", "3", "4", "5", "6", "7", "8", "9" >>

IsDigit(c) == \E i \in 1 .. 10 : Digits[i] = c

DigitVal(c) == (CHOOSE i \in 1 .. 10 : Digits[i] = c) - 1

RECURSIVE DecVal(_)
DecVal(ds) ==
    IF ds = << >> THEN 0
    ELSE 10 * DecVal(SubSeq(ds, 1, Len(ds) - 1)) + DigitVal(ds[Len(ds)])

RECURSIVE Pow10(_)
Pow10(k) == IF k = 0 THEN 1 ELSE 10 * Pow10(k - 1)

\* The decimal n / d without trailing zeros.
RECURSIVE Num(_, _)
Num(n, d) ==
    IF d > 1 /\ n % 10 = 0 THEN Num(n \div 10, d \div 10)
    ELSE [k |-> "num", n |-> n, d |-> d]

NaN == [k |-> "nan"]

Inf(neg) == [k |-> "inf", neg |-> neg]

ToLower(c) ==
    CASE c = "N" -> "n" [] c = "A" -> "a" [] c = "I" -> "i" [] c = "F" -> "f"
      [] c = "T" -> "t" [] c = "Y" -> "y" [] OTHER -> c

\* <f64 as FromStr>::from_str for strings without an exponent: an optional
\* sign, then inf, infinity or nan in any case, or digits with at most one
\* point and at least one digit.  << >> is Err.
parse_f64(s) ==
    LET signed == s # << >> /\ s[1] \in {"-", "+"}
        neg    == signed /\ s[1] = "-"
        body   == IF signed THEN Tail(s) ELSE s
        low    == [i \in 1 .. Len(body) |-> ToLower(body[i])]
        dots   == {i \in 1 .. Len(body) : body[i] = "."}
        dot    == IF dots = {} THEN Len(body) + 1 ELSE CHOOSE i \in dots : TRUE
        int    == SubSeq(body, 1, dot - 1)
        frac   == SubSeq(body, dot + 1, Len(body))
    IN IF low = << "n", "a", "n" >> THEN << NaN >>
       ELSE IF low \in {<< "i", "n", "f" >>,
                        << "i", "n", "f", "i", "n", "i", "t", "y" >>}
       THEN << Inf(neg) >>
       ELSE IF /\ Cardinality(dots) <= 1
               /\ Len(int) + Len(frac) >= 1
               /\ \A i \in 1 .. Len(int) : IsDigit(int[i])
               /\ \A i \in 1 .. Len(frac) : IsDigit(frac[i])
       THEN << Num((IF neg THEN -1 ELSE 1) * DecVal(int \o frac),
                   Pow10(Len(frac))) >>
       ELSE << >>

F64GeMutStrict(a, b) ==
    /\ a.k = "num" /\ b.k = "num"
    /\ a.n * b.d > b.n * a.d

\* a >= b on f64: false when either is NaN.
F64Ge(a, b) ==
    CASE a.k = "nan" \/ b.k = "nan" -> FALSE
      [] a.k = "inf" -> (~a.neg) \/ (b.k = "inf" /\ b.neg)
      [] b.k = "inf" -> b.neg
      [] OTHER -> a.n * b.d >= b.n * a.d

CountText(n) == IF n < 10 THEN << Digits[n + 1] >> ELSE << "m", "a", "n", "y" >>

parse_bbox(s) ==
    LET parts == split(s, ",") IN
    IF Len(parts) # 4
    THEN Err("InvalidBbox",
             << "expected 4 comma-separated values, got " >>
             \o CountText(Len(parts)))
    ELSE LET values == [i \in 1 .. 4 |-> parse_f64(trim(parts[i]))] IN
         IF \E i \in 1 .. 4 : values[i] = << >>
         THEN Err("InvalidBbox", << "invalid number format" >>)
         ELSE LET min_lon == values[1][1]
                  min_lat == values[2][1]
                  max_lon == values[3][1]
                  max_lat == values[4][1]
              IN IF F64Ge(min_lon, max_lon)
                 THEN Err("InvalidBbox",
                          << "min_lon must be less than max_lon" >>)
                 ELSE IF F64Ge(min_lat, max_lat)
                 THEN Err("InvalidBbox",
                          << "min_lat must be less than max_lat" >>)
                 ELSE Ok(Bbox_new(min_lon, min_lat, max_lon, max_lat))

\* parse_bbox called on its own.
ParseBboxCall ==
    /\ arg # << >>
    /\ arg.fn = "parse_bbox"
    /\ ret = << >>
    /\ ret' = << parse_bbox(arg.s) >>
    /\ UNCHANGED << rendererVars, arg >>

\* A field of a --bbox string: its text, and the number it stands for
\* (<< >> when it is not a number).
Field(text, val) == [text |-> text, val |-> val]

BboxFields ==
    { Field(<< "1" >>, << Num(1, 1) >>),
      Field(<< "-", "4", ".", "5" >>, << Num(-45, 10) >>),
      Field(<< " ", "2", " " >>, << Num(2, 1) >>),
      Field(<< "2", ".", "0" >>, << Num(2, 1) >>),
      Field(<< "4", "8", ".", "5" >>, << Num(485, 10) >>),
      Field(<< >>, << >>),
      Field(<< "a", "b", "c" >>, << >>),
      Field(<< "1", " ", "2" >>, << >>),
      Field(<< "N", "a", "N" >>, << NaN >>) }

RECURSIVE Join(_, _)
Join(fields, sep) ==
    IF fields = << >> THEN << >>
    ELSE IF Len(fields) = 1 THEN fields[1].text
    ELSE fields[1].text \o << sep >> \o Join(Tail(fields), sep)

FewFields == {f \in BboxFields : f.text \in {<< "1" >>, << "2", ".", "0" >>}}

BboxFieldLists ==
    [1 .. 4 -> BboxFields] \cup [1 .. 3 -> FewFields] \cup [1 .. 5 -> FewFields]
    \cup [1 .. 1 -> BboxFields]

DefaultConfig == RenderConfig(Bbox_new(0, 0, 1, 1), 1, << 255, 0, 0, 128 >>,
                              << 255, 0, 0 >>, 1)

InitParseBbox ==
    \E fl \in BboxFieldLists :
        /\ Unbuilt(DefaultConfig, 1, {}, 0)
        /\ arg = [fn |-> "parse_bbox", s |-> Join(fl, ","), fields |-> fl]
        /\ ret = << >>

NextParseBbox == ParseBboxCall

SpecParseBbox == InitParseBbox /\ [][NextParseBbox]_vars

\* a >= b for the numbers the fields stand for.
AtLeast(a, b) ==
    /\ a.k = "num"
    /\ b.k = "num"
    /\ a.n * b.d >= b.n * a.d

HexDigits ==
    << "0", "1", "2", "3", "4", "5", "6", "7", "8", "9",
       "a", "b", "c", "d", "e", "f", "A", "B", "C", "D", "E", "F" >>

IsHex(c) == \E i \in 1 .. 22 : HexDigits[i] = c

HexVal(c) ==
    LET i == CHOOSE j \in 1 .. 22 : HexDigits[j] = c
    IN IF i <= 16 THEN i - 1 ELSE i - 7

\* hex::decode: << >> is Err (odd length or a character that is not hex).
hex_decode(s) ==
    IF Len(s) % 2 = 1 \/ \E i \in 1 .. Len(s) : ~IsHex(s[i]) THEN << >>
    ELSE << [i \in 1 .. Len(s) \div 2 |->
                16 * HexVal(s[2 * i - 1]) + HexVal(s[2 * i])] >>

parse_rgba(s) ==
    LET bytes == hex_decode(s) IN
    IF bytes = << >> THEN Err("InvalidColor", s)
    ELSE IF Len(bytes[1]) # 4
    THEN Err("InvalidColor", << "RGBA color must be 8 hex digits" >>)
    ELSE Ok(bytes[1])

parse_rgb(s) ==
    LET bytes == hex_decode(s) IN
    IF bytes = << >> THEN Err("InvalidColor", s)
    ELSE IF Len(bytes[1]) # 3
    THEN Err("InvalidColor", << "RGB color must be 6 hex digits" >>)
    ELSE Ok(bytes[1])

\* Path::file_name: the last component that is not "." or empty, unless it
\* is "..".  << >> is None.
file_name(path) ==
    LET comps == SelectSeq(split(path, "/"),
                           LAMBDA c : c # << >> /\ c # << "." >>)
    IN IF comps = << >> \/ comps[Len(comps)] = << ".", "." >> THEN << >>
       ELSE << comps[Len(comps)] >>

FileStemMutFirstPoint(path) ==
    LET name == file_name(path) IN
    IF name = << >> THEN << >>
    ELSE LET dots == {i \in 2 .. Len(name[1]) : name[1][i] = "."}
         IN IF dots = {} THEN name
            ELSE << SubSeq(name[1], 1,
                           (CHOOSE i \in dots : \A j \in dots : j >= i) - 1) >>

\* Path::file_stem: the file name up to its last point, the whole name when
\* it has no point after its first character.
file_stem(path) ==
    LET name == file_name(path) IN
    IF name = << >> THEN << >>
    ELSE LET dots == {i \in 2 .. Len(name[1]) : name[1][i] = "."}
         IN IF dots = {} THEN name
            ELSE << SubSeq(name[1], 1,
                           (CHOOSE i \in dots : \A j \in dots : j <= i) - 1) >>

F64Zero == Num(0, 1)

\* a <= b on f64: false when either is NaN.
F64Le(a, b) == F64Ge(b, a)

validate(self) ==
    IF self.resolution = << >> /\ self.scale = << >>
    THEN Err("MissingResolutionOrScale", << >>)
    ELSE IF self.resolution # << >> /\ self.scale # << >>
    THEN Err("MutuallyExclusiveOptions", << "resolution", "scale" >>)
    ELSE IF self.resolution # << >> /\ F64Le(self.resolution[1], F64Zero)
    THEN Err("InvalidResolution", self.resolution[1])
    ELSE IF self.scale # << >> /\ F64Le(self.scale[1], F64Zero)
    THEN Err("InvalidScale", self.scale[1])
    ELSE LET bbox   == IF self.bbox = << >> THEN Ok(<< >>)
                       ELSE LET b == parse_bbox(self.bbox[1])
                            IN IF b.ok THEN Ok(<< b.val >>) ELSE b
             fill   == parse_rgba(self.fill)
             stroke == parse_rgb(self.stroke)
         IN IF ~bbox.ok THEN bbox
            ELSE IF ~fill.ok THEN fill
            ELSE IF ~stroke.ok THEN stroke
            ELSE IF self.format = "Geojson" /\ self.layer # << >>
            THEN Err("InvalidFormatOption",
                     << "--layer cannot be used with geojson format" >>)
            ELSE IF self.format = "Gpkg" /\ self.output_name # << >>
            THEN Err("InvalidFormatOption",
                     << "--output-name can only be used with geojson format" >>)
            ELSE Ok([input        |-> self.input,
                     output_dir   |-> self.output_dir,
                     bbox         |-> bbox.val,
                     resolution   |-> self.resolution,
                     scale        |-> self.scale,
                     fill         |-> fill.val,
                     stroke       |-> stroke.val,
                     stroke_width |-> self.stroke_width,
                     layer        |-> self.layer,
                     output_name  |->
                         IF self.format = "Geojson"
                         THEN << IF self.output_name # << >>
                                 THEN self.output_name[1]
                                 ELSE IF file_stem(self.input) # << >>
                                 THEN file_stem(self.input)[1]
                                 ELSE << "o", "u", "t", "p", "u", "t" >> >>
                         ELSE << >>,
                     format       |-> self.format])

\* Args::validate called on its own.
ValidateCall ==
    /\ arg # << >>
    /\ arg.fn = "validate"
    /\ ret = << >>
    /\ ret' = << validate(arg.self) >>
    /\ UNCHANGED << rendererVars, arg >>

\* The values of --resolution and --scale: clap reads them with
\* f64::from_str, so NaN is among them.
ResolutionOptions ==
    {<< >>, << Num(1, 1000) >>, << Num(0, 1) >>, << Num(-1, 1000) >>,
     << NaN >>}

ScaleOptions ==
    {<< >>, << Num(10, 1) >>, << Num(0, 1) >>, << Num(-10, 1) >>, << NaN >>}

BboxOptions ==
    {<< >>,
     << << "-", "4", ".", "5", ",", "4", "8", ".", "0", ",", "-", "4", ".", "0", ",", "4", "8", ".", "5" >> >>,
     << << "-", "4", ".", "5", ",", "4", "8", ".", "0", ",", "-", "4", ".", "5", ",", "4", "8", ".", "5" >> >>}

\* Input paths, each with its file stem (<< >> when it has none).
InputPaths ==
    { [path |-> << "t", "e", "s", "t", ".", "g", "p", "k", "g" >>, stem |-> << << "t", "e", "s", "t" >> >>],
      [path |-> << "d", "a", "t", "a", "/", "a", ".", "b", ".", "g", "e", "o", "j", "s", "o", "n" >>, stem |-> << << "a", ".", "b" >> >>],
      [path |-> << ".", "." >>, stem |-> << >>] }

ArgsSet ==
    { [input        |-> ip.path,
       output_dir   |-> << "." >>,
       bbox         |-> b,
       resolution   |-> r,
       scale        |-> sc,
       fill         |-> f,
       stroke       |-> st,
       stroke_width |-> 1,
       layer        |-> l,
       format       |-> fmt,
       output_name  |-> o] :
        ip \in InputPaths, b \in BboxOptions, r \in ResolutionOptions,
        sc \in ScaleOptions,
        f \in {<< "F", "F", "0", "0", "0", "0", "8", "0" >>, << "G", "G", "G", "G", "G", "G", "G", "G" >>},
        st \in {<< "F", "F", "0", "0", "0", "0" >>, << "F", "F" >>},
        l \in {<< >>, << << "r", "o", "a", "d", "s" >> >>},
        fmt \in {"Gpkg", "Geojson"},
        o \in {<< >>, << << "c", "u", "s", "t", "o", "m" >> >>} }

StemOf(path) == (CHOOSE ip \in InputPaths : ip.path = path).stem

InitValidate ==
    \E a \in ArgsSet :
        /\ Unbuilt(DefaultConfig, 1, {}, 0)
        /\ arg = [fn |-> "validate", self |-> a]
        /\ ret = << >>

NextValidate == ValidateCall

SpecValidate == InitValidate /\ [][NextValidate]_vars

Positive(v) == (v.k = "num" /\ v.n > 0) \/ (v.k = "inf" /\ ~v.neg)

NonPositive(v) == (v.k = "num" /\ v.n <= 0) \/ (v.k = "inf" /\ v.neg)

Validated == arg # << >> /\ arg.fn = "validate" /\ ret # << >>

\* C12: validate returns Ok only when exactly one of resolution and scale
\* is given and that value is positive; neither gives
\* MissingResolutionOrScale, both give MutuallyExclusiveOptions, a
\* non-positive resolution gives InvalidResolution, a non-positive scale
\* gives InvalidScale; a returned Config has exactly one of the two.
C12_ResolutionOrScale ==
    Validated =>
        LET a == arg.self
            r == a.resolution
            sc == a.scale
        IN /\ ret[1].ok =>
                  \/ (r # << >> /\ sc = << >> /\ Positive(r[1]))
                  \/ (r = << >> /\ sc # << >> /\ Positive(sc[1]))
           /\ (r = << >> /\ sc = << >>) =>
                  (~ret[1].ok /\ ret[1].err.kind = "MissingResolutionOrScale")
           /\ (r # << >> /\ sc # << >>) =>
                  (~ret[1].ok /\ ret[1].err.kind = "MutuallyExclusiveOptions")
           /\ (r # << >> /\ sc = << >> /\ NonPositive(r[1])) =>
                  (~ret[1].ok /\ ret[1].err.kind = "InvalidResolution")
           /\ (r = << >> /\ sc # << >> /\ NonPositive(sc[1])) =>
                  (~ret[1].ok /\ ret[1].err.kind = "InvalidScale")
           /\ ret[1].ok =>
                  (ret[1].val.resolution = << >>) # (ret[1].val.scale = << >>)

\* The same arguments without --layer and --output-name.
WithoutFormatOptions(a) == [a EXCEPT !.layer = << >>, !.output_name = << >>]

\* C13: validate rejects --layer with the geojson format and --output-name
\* with the gpkg format, with InvalidFormatOption unless the arguments are
\* rejected without these options too; a returned Config has an
\* output_name exactly for Geojson: the name given, else the stem of the
\* input file.
C13_FormatOptions ==
    Validated =>
        LET a == arg.self
            misuse == \/ (a.format = "Geojson" /\ a.layer # << >>)
                      \/ (a.format = "Gpkg" /\ a.output_name # << >>)
        IN /\ misuse => ~ret[1].ok
           /\ (misuse /\ validate(WithoutFormatOptions(a)).ok) =>
                  ret[1].err.kind = "InvalidFormatOption"
           /\ ret[1].ok =>
                  /\ (ret[1].val.output_name # << >>) <=> (a.format = "Geojson")
                  /\ (a.format = "Geojson" /\ a.output_name # << >>) =>
                         ret[1].val.output_name = a.output_name
                  /\ ( /\ a.format = "Geojson"
                       /\ a.output_name = << >>
                       /\ StemOf(a.input) # << >> ) =>
                         ret[1].val.output_name = StemOf(a.input)

\* data/a.b.geojson without --output-name is written to a.b.
C13_Witness ==
    /\ Validated
    /\ ret[1].ok
    /\ arg.self.format = "Geojson"
    /\ arg.self.output_name = << >>
    /\ StemOf(arg.self.input) = << << "a", ".", "b" >> >>
    /\ ret[1].val.output_name = << << "a", ".", "b" >> >>


(***************************************************************************)
(* GeoPackage geometry blobs (src/src/gpkg.rs).  A blob is a sequence of   *)
(* bytes; an f64 read from one is kept as its 8 bytes, most significant    *)
(* first.                                                                  *)
(***************************************************************************)
Fail == [ok |-> FALSE]

Read(v, pos) == [ok |-> TRUE, val |-> v, pos |-> pos]

\* A u32 at d[pos ..], little or big endian (counts stay below 2^31).
ReadU32(d, pos, le) ==
    IF pos + 3 > Len(d) THEN Fail
    ELSE LET b == IF le THEN << d[pos + 3], d[pos + 2], d[pos + 1], d[pos] >>
                  ELSE << d[pos], d[pos + 1], d[pos + 2], d[pos + 3] >>
         IN IF b[1] >= 128 THEN Fail
            ELSE Read(((b[1] * 256 + b[2]) * 256 + b[3]) * 256 + b[4], pos + 4)

ReadF64(d, pos, le) ==
    IF pos + 7 > Len(d) THEN Fail
    ELSE Read(IF le THEN [i \in 1 .. 8 |-> d[pos + 8 - i]]
              ELSE [i \in 1 .. 8 |-> d[pos + i - 1]], pos + 8)

ReadCoord(d, pos, le) ==
    LET x == ReadF64(d, pos, le) IN
    IF ~x.ok THEN Fail
    ELSE LET y == ReadF64(d, x.pos, le) IN
         IF ~y.ok THEN Fail ELSE Read(<< x.val, y.val >>, y.pos)

RECURSIVE ReadCoords(_, _, _, _, _)
ReadCoords(d, pos, le, n, acc) ==
    IF n = 0 THEN Read(acc, pos)
    ELSE LET c == ReadCoord(d, pos, le) IN
         IF ~c.ok THEN Fail
         ELSE ReadCoords(d, c.pos, le, n - 1, Append(acc, c.val))

ReadLineString(d, pos, le) ==
    LET n == ReadU32(d, pos, le) IN
    IF ~n.ok THEN Fail ELSE ReadCoords(d, n.pos, le, n.val, << >>)

RECURSIVE ReadRings(_, _, _, _, _)
ReadRings(d, pos, le, n, acc) ==
    IF n = 0 THEN Read(acc, pos)
    ELSE LET r == ReadLineString(d, pos, le) IN
         IF ~r.ok THEN Fail
         ELSE ReadRings(d, r.pos, le, n - 1, Append(acc, r.val))

\* One geometry of ISO-WKB: byte order, type, body.  Types 1 (Point),
\* 2 (LineString), 3 (Polygon) and 6 (MultiPolygon) are read.
RECURSIVE ReadGeometry(_, _)
RECURSIVE ReadPolygons(_, _, _, _)
ReadGeometry(d, pos) ==
    IF pos > Len(d) \/ d[pos] > 1 THEN Fail
    ELSE LET le == d[pos] = 1
             ty == ReadU32(d, pos + 1, le)
         IN IF ~ty.ok THEN Fail
            ELSE CASE ty.val = 1 ->
                      LET c == ReadCoord(d, ty.pos, le) IN
                      IF ~c.ok THEN Fail
                      ELSE Read([type |-> "Point", coord |-> c.val], c.pos)
                   [] ty.val = 2 ->
                      LET l == ReadLineString(d, ty.pos, le) IN
                      IF ~l.ok THEN Fail
                      ELSE Read([type |-> "LineString", coords |-> l.val],
                                l.pos)
                   [] ty.val = 3 ->
                      LET n == ReadU32(d, ty.pos, le) IN
                      IF ~n.ok THEN Fail
                      ELSE LET r == ReadRings(d, n.pos, le, n.val, << >>) IN
                           IF ~r.ok THEN Fail
                           ELSE Read([type |-> "Polygon", rings |-> r.val],
                                     r.pos)
                   [] ty.val = 6 ->
                      LET n == ReadU32(d, ty.pos, le) IN
                      IF ~n.ok THEN Fail
                      ELSE LET ps == ReadPolygons(d, n.pos, n.val, << >>) IN
                           IF ~ps.ok THEN Fail
                           ELSE Read([type |-> "MultiPolygon",
                                      polygons |-> ps.val], ps.pos)
                   [] OTHER -> Fail

ReadPolygons(d, pos, n, acc) ==
    IF n = 0 THEN Read(acc, pos)
    ELSE LET g == ReadGeometry(d, pos) IN
         IF ~g.ok \/ g.val.type # "Polygon" THEN Fail
         ELSE ReadPolygons(d, g.pos, n - 1, Append(acc, g.val))

\* wkb::wkb_to_geom(cursor).ok(): << >> is None; bytes after the geometry
\* are not read.
wkb_to_geom(d) ==
    LET g == ReadGeometry(d, 1) IN IF g.ok THEN << g.val >> ELSE << >>

EnvelopeSizeMutThree(envelope_indicator) ==
    CASE envelope_indicator = 0 -> << 0 >>
      [] envelope_indicator = 1 -> << 32 >>
      [] envelope_indicator = 2 -> << 48 >>
      [] envelope_indicator = 3 -> << 64 >>
      [] envelope_indicator = 4 -> << 64 >>
      [] OTHER -> << >>

\* The match on envelope_indicator: << >> is `return None`.
envelope_size(envelope_indicator) ==
    CASE envelope_indicator = 0 -> << 0 >>
      [] envelope_indicator = 1 -> << 32 >>
      [] envelope_indicator = 2 -> << 48 >>
      [] envelope_indicator = 3 -> << 48 >>
      [] envelope_indicator = 4 -> << 64 >>
      [] OTHER -> << >>

parse_gpkg_wkb(data) ==
    IF Len(data) < 8 THEN << >>
    ELSE IF data[1] # 71 \/ data[2] # 80 THEN wkb_to_geom(data)
    ELSE LET flags == data[4]
             envelope_indicator == (flags \div 2) % 8
             size == envelope_size(envelope_indicator)
         IN IF size = << >> THEN << >>
            ELSE LET wkb_start == 8 + size[1] IN
                 IF Len(data) <= wkb_start THEN << >>
                 ELSE wkb_to_geom(SubSeq(data, wkb_start + 1, Len(data)))

\* parse_gpkg_wkb called on its own.
ParseGpkgWkbCall ==
    /\ arg # << >>
    /\ arg.fn = "parse_gpkg_wkb"
    /\ ret = << >>
    /\ ret' = << parse_gpkg_wkb(arg.data) >>
    /\ UNCHANGED << rendererVars, arg >>

\* The little-endian WKB of a Point whose coordinates carry the tag t.
PointWkb(t) ==
    << 1, 1, 0, 0, 0 >> \o << t, 0, 0, 0, 0, 0, 240, 63 >>
    \o << 0, 0, 0, 0, 0, 0, t, 64 >>

\* The big-endian WKB of a Polygon of one ring of three points.
TriangleWkb ==
    << 0, 0, 0, 0, 3, 0, 0, 0, 1, 0, 0, 0, 3 >>
    \o << 64, 0, 0, 0, 0, 0, 0, 1 >> \o << 64, 0, 0, 0, 0, 0, 0, 2 >>
    \o << 64, 0, 0, 0, 0, 0, 0, 3 >> \o << 64, 0, 0, 0, 0, 0, 0, 4 >>
    \o << 64, 0, 0, 0, 0, 0, 0, 5 >> \o << 64, 0, 0, 0, 0, 0, 0, 6 >>

Pad(n) == [i \in 1 .. n |-> 255]

\* A geometry of no parts: type 2 is a LineString, 3 a Polygon.
EmptyWkb(ty) == << 1, ty, 0, 0, 0, 0, 0, 0, 0 >>

\* After the 8 header bytes: a geometry at each of the offsets 0, 32, 48
\* and 64, each different, filler in between.
Body ==
    PointWkb(10) \o Pad(11) \o EmptyWkb(2) \o Pad(7) \o EmptyWkb(3) \o Pad(7)
    \o TriangleWkb

Magics == {<< 71, 80 >>, << 71, 81 >>, << 80, 71 >>}

FlagBytes == {2 * e + b + 32 * x : e \in 0 .. 7, b \in 0 .. 1, x \in 0 .. 1}

BodyLengths == {0, 1, 21, 32, 33, 41, 48, 57, 64, 65, Len(Body)}

Blobs ==
    { m \o << 0, f >> \o << 0, 0, 16, 230 >> \o SubSeq(Body, 1, n) :
        m \in Magics, f \in FlagBytes, n \in BodyLengths }
    \cup {PointWkb(7), TriangleWkb, << 1, 1, 0, 0, 0 >>, << 71, 80, 0 >>,
          << >>}

InitWkb ==
    \E d \in Blobs :
        /\ Unbuilt(DefaultConfig, 1, {}, 0)
        /\ arg = [fn |-> "parse_gpkg_wkb", data |-> d]
        /\ ret = << >>

NextWkb == ParseGpkgWkbCall

SpecWkb == InitWkb /\ [][NextWkb]_vars

\* The envelope sizes of the GeoPackage encoding, by envelope indicator.
EnvelopeBytes == << 0, 32, 48, 48, 64 >>

\* C14: a blob that starts with "GP" is decoded from offset
\* 8 + envelope size, the size being 0, 32, 48, 48, 64 for the indicator
\* (flags >> 1) & 7 = 0 .. 4; it is rejected for the indicators 5 .. 7 and
\* when no byte is left at that offset; a blob without "GP" is decoded as
\* ISO-WKB from offset 0.
C14_GpkgHeader ==
    (arg # << >> /\ arg.fn = "parse_gpkg_wkb" /\ ret # << >>) =>
        LET d == arg.data
            e == (d[4] \div 2) % 8
        IN IF Len(d) >= 2 /\ d[1] = 71 /\ d[2] = 80
           THEN IF Len(d) >= 4 /\ e <= 4 /\ Len(d) > 8 + EnvelopeBytes[e + 1]
                THEN ret[1] = wkb_to_geom(SubSeq(d, 9 + EnvelopeBytes[e + 1],
                                                  Len(d)))
                ELSE ret[1] = << >>
           ELSE ret[1] = wkb_to_geom(d)

\* Indicator 3: the empty Polygon at offset 56 is returned, not the
\* triangle at offset 72.
C14_Witness ==
    /\ arg # << >>
    /\ arg.fn = "parse_gpkg_wkb"
    /\ Len(arg.data) = 8 + Len(Body)
    /\ arg.data[1] = 71
    /\ arg.data[2] = 80
    /\ arg.data[4] = 6
    /\ ret = << << [type |-> "Polygon", rings |-> << >>] >> >>


(***************************************************************************)
(* GeoJSON input (src/src/geojson.rs).  A file's content is a sequence of  *)
(* one-character strings.                                                  *)
(***************************************************************************)
Quote == "\""

StartsAt(s, i, pat) ==
    /\ i + Len(pat) - 1 <= Len(s)
    /\ SubSeq(s, i, i + Len(pat) - 1) = pat

\* The concatenation of parts[lo .. hi].
RECURSIVE ConcatRange(_, _, _)
ConcatRange(parts, lo, hi) ==
    IF lo > hi THEN << >>
    ELSE IF lo = hi THEN parts[lo]
    ELSE LET mid == (lo + hi) \div 2 IN
         ConcatRange(parts, lo, mid) \o ConcatRange(parts, mid + 1, hi)

\* The matches of str::match_indices: a left-to-right scan that resumes
\* after each match, so that matches do not overlap.
RECURSIVE ScanMatches(_, _, _)
ScanMatches(starts, len, from) ==
    LET rest == {i \in starts : i >= from} IN
    IF rest = {} THEN {}
    ELSE LET m == CHOOSE i \in rest : \A j \in rest : i <= j IN
         {m} \cup ScanMatches(starts, len, m + len)

\* str::replace
replace(s, from, to) ==
    LET starts  == {i \in 1 .. Len(s) : StartsAt(s, i, from)}
        matches == ScanMatches(starts, Len(from), 1)
        parts   == [i \in 1 .. Len(s) |->
                      IF i \in matches THEN to
                      ELSE IF \E m \in matches : m < i /\ i < m + Len(from)
                      THEN << >>
                      ELSE << s[i] >>]
    IN ConcatRange(parts, 1, Len(s))

TypeEmpty ==
    << "\"", "t", "y", "p", "e", "\"", ":", "\"", "\"" >>

TypeMultiPolygon ==
    << "\"", "t", "y", "p", "e", "\"", ":", "\"", "M", "u", "l", "t", "i",
       "P", "o", "l", "y", "g", "o", "n", "\"" >>

TypeSpEmpty ==
    << "\"", "t", "y", "p", "e", "\"", ":", " ", "\"", "\"" >>

TypeSpMultiPolygon ==
    << "\"", "t", "y", "p", "e", "\"", ":", " ", "\"", "M", "u", "l", "t",
       "i", "P", "o", "l", "y", "g", "o", "n", "\"" >>

PreprocessMutQuotesFirst(content) ==
    replace(replace(replace(content, << Quote, Quote >>, << Quote >>),
                    TypeEmpty, TypeMultiPolygon),
            TypeSpEmpty, TypeSpMultiPolygon)

preprocess_geojson(content) ==
    replace(replace(replace(content, TypeEmpty, TypeMultiPolygon),
                    TypeSpEmpty, TypeSpMultiPolygon),
            << Quote, Quote >>, << Quote >>)

\* serde_json, for documents without escapes, exponents and booleans.
RECURSIVE SkipWs(_, _)
SkipWs(s, i) ==
    IF i <= Len(s) /\ s[i] = " " THEN SkipWs(s, i + 1) ELSE i

RECURSIVE ScanString(_, _, _)
ScanString(s, i, acc) ==
    IF i > Len(s) \/ s[i] = "\\" THEN Fail
    ELSE IF s[i] = Quote THEN Read(acc, i + 1)
    ELSE ScanString(s, i + 1, Append(acc, s[i]))

RECURSIVE NumberEnd(_, _)
NumberEnd(s, i) ==
    IF i <= Len(s) /\ (IsDigit(s[i]) \/ s[i] \in {"-", "."})
    THEN NumberEnd(s, i + 1) ELSE i

ParseNumber(s, i) ==
    LET j    == NumberEnd(s, i)
        text == SubSeq(s, i, j - 1)
        body == IF text[1] = "-" THEN Tail(text) ELSE text
        v    == parse_f64(text)
    IN IF /\ body # << >>
          /\ IsDigit(body[1])
          /\ IsDigit(body[Len(body)])
          /\ ((Len(body) > 1 /\ body[1] = "0") => body[2] = ".")
          /\ v # << >>
       THEN Read([t |-> "num", v |-> v[1]], j)
       ELSE Fail

RECURSIVE ParseValue(_, _)
RECURSIVE ParseElements(_, _, _)
RECURSIVE ParseMembers(_, _, _)
ParseValue(s, i0) ==
    LET i == SkipWs(s, i0) IN
    IF i > Len(s) THEN Fail
    ELSE CASE s[i] = Quote ->
              LET r == ScanString(s, i + 1, << >>) IN
              IF r.ok THEN Read([t |-> "str", v |-> r.val], r.pos) ELSE Fail
           [] s[i] = "[" ->
              LET j == SkipWs(s, i + 1) IN
              IF j <= Len(s) /\ s[j] = "]"
              THEN Read([t |-> "arr", v |-> << >>], j + 1)
              ELSE ParseElements(s, i + 1, << >>)
           [] s[i] = "{" ->
              LET j == SkipWs(s, i + 1) IN
              IF j <= Len(s) /\ s[j] = "}"
              THEN Read([t |-> "obj", v |-> << >>], j + 1)
              ELSE ParseMembers(s, i + 1, << >>)
           [] StartsAt(s, i, << "n", "u", "l", "l" >>) ->
              Read([t |-> "null", v |-> << >>], i + 4)
           [] s[i] = "-" \/ IsDigit(s[i]) -> ParseNumber(s, i)
           [] OTHER -> Fail

ParseElements(s, i, acc) ==
    LET e == ParseValue(s, i) IN
    IF ~e.ok THEN Fail
    ELSE LET j == SkipWs(s, e.pos) IN
         IF j > Len(s) THEN Fail
         ELSE IF s[j] = "," THEN ParseElements(s, j + 1, Append(acc, e.val))
         ELSE IF s[j] = "]"
         THEN Read([t |-> "arr", v |-> Append(acc, e.val)], j + 1)
         ELSE Fail

ParseMembers(s, i, acc) ==
    LET k == SkipWs(s, i) IN
    IF k > Len(s) \/ s[k] # Quote THEN Fail
    ELSE LET key == ScanString(s, k + 1, << >>) IN
         IF ~key.ok THEN Fail
         ELSE LET c == SkipWs(s, key.pos) IN
              IF c > Len(s) \/ s[c] # ":" THEN Fail
              ELSE LET m == ParseValue(s, c + 1) IN
                   IF ~m.ok THEN Fail
                   ELSE LET j   == SkipWs(s, m.pos)
                            all == Append(acc, << key.val, m.val >>)
                        IN IF j > Len(s) THEN Fail
                           ELSE IF s[j] = ","
                           THEN ParseMembers(s, j + 1, all)
                           ELSE IF s[j] = "}"
                           THEN Read([t |-> "obj", v |-> all], j + 1)
                           ELSE Fail

\* << >> is a syntax error; text after the value is one.
json_parse(s) ==
    LET r == ParseValue(s, 1) IN
    IF r.ok /\ SkipWs(s, r.pos) > Len(s) THEN << r.val >> ELSE << >>

\* A member of an object: the last one of that name; << >> when absent.
Member(obj, key) ==
    LET at == {i \in 1 .. Len(obj.v) : obj.v[i][1] = key} IN
    IF at = {} THEN << >>
    ELSE << obj.v[CHOOSE i \in at : \A j \in at : j <= i][2] >>

K_type ==
    << "t", "y", "p", "e" >>

K_coordinates ==
    << "c", "o", "o", "r", "d", "i", "n", "a", "t", "e", "s" >>

K_geometry ==
    << "g", "e", "o", "m", "e", "t", "r", "y" >>

K_features ==
    << "f", "e", "a", "t", "u", "r", "e", "s" >>

N_Feature ==
    << "F", "e", "a", "t", "u", "r", "e" >>

N_FeatureCollection ==
    << "F", "e", "a", "t", "u", "r", "e", "C", "o", "l", "l", "e", "c",
       "t", "i", "o", "n" >>

N_Point ==
    << "P", "o", "i", "n", "t" >>

N_MultiPoint ==
    << "M", "u", "l", "t", "i", "P", "o", "i", "n", "t" >>

N_LineString ==
    << "L", "i", "n", "e", "S", "t", "r", "i", "n", "g" >>

N_MultiLineString ==
    << "M", "u", "l", "t", "i", "L", "i", "n", "e", "S", "t", "r", "i",
       "n", "g" >>

N_Polygon ==
    << "P", "o", "l", "y", "g", "o", "n" >>

N_MultiPolygon ==
    << "M", "u", "l", "t", "i", "P", "o", "l", "y", "g", "o", "n" >>

GeometryDepth(ty) ==
    CASE ty = N_Point -> 1
      [] ty \in {N_MultiPoint, N_LineString} -> 2
      [] ty \in {N_MultiLineString, N_Polygon} -> 3
      [] ty = N_MultiPolygon -> 4
      [] OTHER -> 0

\* A position has at least two numbers.
RECURSIVE IsCoords(_, _)
IsCoords(v, depth) ==
    /\ v.t = "arr"
    /\ IF depth = 1
       THEN Len(v.v) >= 2 /\ \A i \in 1 .. Len(v.v) : v.v[i].t = "num"
       ELSE \A i \in 1 .. Len(v.v) : IsCoords(v.v[i], depth - 1)

RECURSIVE Coords(_, _)
Coords(v, depth) ==
    IF depth = 0 THEN v.v
    ELSE [i \in 1 .. Len(v.v) |-> Coords(v.v[i], depth - 1)]

\* geojson::Geometry from a JSON object, for the six types with
\* coordinates; an unknown type is an error.
Geometry_from_json(obj) ==
    LET ty == Member(obj, K_type)
        co == Member(obj, K_coordinates)
    IN IF ty = << >> \/ ty[1].t # "str" \/ co = << >> THEN Fail
       ELSE LET depth == GeometryDepth(ty[1].v) IN
            IF depth = 0 \/ ~IsCoords(co[1], depth) THEN Fail
            ELSE Ok([type |-> ty[1].v, coordinates |-> Coords(co[1], depth)])

\* geojson::Feature from a JSON object: geometry absent or null is None.
Feature_from_json(obj) ==
    LET ty == Member(obj, K_type)
        g  == Member(obj, K_geometry)
    IN IF ty = << >> \/ ty[1].t # "str" \/ ty[1].v # N_Feature THEN Fail
       ELSE IF g = << >> \/ g[1].t = "null" THEN Ok([geometry |-> << >>])
       ELSE IF g[1].t # "obj" THEN Fail
       ELSE LET r == Geometry_from_json(g[1]) IN
            IF r.ok THEN Ok([geometry |-> << r.val >>]) ELSE Fail

\* content.parse::<GeoJson>()
GeoJson_from_str(s) ==
    LET j == json_parse(s) IN
    IF j = << >> \/ j[1].t # "obj" THEN Fail
    ELSE LET ty == Member(j[1], K_type) IN
         IF ty = << >> \/ ty[1].t # "str" THEN Fail
         ELSE IF ty[1].v = N_Feature
         THEN LET f == Feature_from_json(j[1]) IN
              IF f.ok THEN Ok([kind |-> "Feature", feature |-> f.val])
              ELSE Fail
         ELSE IF ty[1].v = N_FeatureCollection
         THEN LET fs == Member(j[1], K_features) IN
              IF \/ fs = << >>
                 \/ fs[1].t # "arr"
                 \/ \E i \in 1 .. Len(fs[1].v) :
                        \/ fs[1].v[i].t # "obj"
                        \/ ~Feature_from_json(fs[1].v[i]).ok
              THEN Fail
              ELSE Ok([kind |-> "FeatureCollection",
                       features |-> [i \in 1 .. Len(fs[1].v) |->
                                       Feature_from_json(fs[1].v[i]).val]])
         ELSE LET g == Geometry_from_json(j[1]) IN
              IF g.ok THEN Ok([kind |-> "Geometry", geometry |-> g.val])
              ELSE Fail

\* filter_map(..).collect() over a sequence of options.
Flatten(opts) == ConcatRange(opts, 1, Len(opts))

linestring_from_coords(coords) ==
    IF coords = << >> THEN << >>
    ELSE LET points ==
                 Flatten([i \in 1 .. Len(coords) |->
                            IF Len(coords[i]) >= 2
                            THEN << << coords[i][1], coords[i][2] >> >>
                            ELSE << >>])
         IN IF points = << >> THEN << >> ELSE << points >>

\* Polygon::new closes a ring that is open.
CloseRing(ls) ==
    IF ls # << >> /\ ls[1] # ls[Len(ls)] THEN Append(ls, ls[1]) ELSE ls

polygon_from_coords(coords) ==
    IF coords = << >> THEN << >>
    ELSE LET exterior == linestring_from_coords(coords[1]) IN
         IF exterior = << >> THEN << >>
         ELSE LET interiors ==
                      Flatten([i \in 1 .. Len(coords) - 1 |->
                                 linestring_from_coords(coords[i + 1])])
              IN << Poly(CloseRing(exterior[1]),
                         [i \in 1 .. Len(interiors) |->
                            CloseRing(interiors[i])]) >>

geometry_to_multipolygon(geom) ==
    IF geom.type = N_Polygon
    THEN LET polygon == polygon_from_coords(geom.coordinates) IN
         IF polygon = << >> THEN << >> ELSE << polygon >>
    ELSE IF geom.type = N_MultiPolygon
    THEN LET polygons ==
                 Flatten([i \in 1 .. Len(geom.coordinates) |->
                            polygon_from_coords(geom.coordinates[i])])
         IN IF polygons = << >> THEN << >> ELSE << polygons >>
    ELSE << >>

FeatureGeometries(feature) ==
    IF feature.geometry = << >> THEN << >>
    ELSE geometry_to_multipolygon(feature.geometry[1])

extract_geometries(geojson) ==
    CASE geojson.kind = "Geometry" ->
         geometry_to_multipolygon(geojson.geometry)
      [] geojson.kind = "Feature" -> FeatureGeometries(geojson.feature)
      [] geojson.kind = "FeatureCollection" ->
         Flatten([i \in 1 .. Len(geojson.features) |->
                    FeatureGeometries(geojson.features[i])])

\* GeojsonReader::open from the content of the file on.
GeojsonReader_open(content) ==
    LET geojson == GeoJson_from_str(preprocess_geojson(content)) IN
    IF ~geojson.ok THEN Err("GeojsonParseError", << >>)
    ELSE LET geometries == extract_geometries(geojson.val) IN
         IF geometries = << >> THEN Err("EmptyGeojson", << >>)
         ELSE Ok(geometries)

GeojsonOpenCall ==
    /\ arg # << >>
    /\ arg.fn = "open"
    /\ ret = << >>
    /\ ret' = << [content |-> preprocess_geojson(arg.content),
                  result |-> GeojsonReader_open(arg.content)] >>
    /\ UNCHANGED << rendererVars, arg >>

\* Coordinate texts of a MultiPolygon, a Polygon and a Point.
MultiPolygonCoords ==
    << "[", "[", "[", "[", "0", ",", "0", "]", ",", "[", "2", ",", "0",
       "]", ",", "[", "2", ",", "1", ".", "5", "]", ",", "[", "0", ",",
       "0", "]", "]", "]", "]" >>

PolygonCoords ==
    << "[", "[", "[", "4", ",", "4", "]", ",", "[", "5", ",", "4", "]",
       ",", "[", "5", ",", "5", "]", ",", "[", "4", ",", "4", "]", "]",
       "]" >>

PointCoords ==
    << "[", "0", ",", "0", "]" >>

FeatureOpen ==
    << "{", "\"", "t", "y", "p", "e", "\"", ":", "\"", "F", "e", "a", "t",
       "u", "r", "e", "\"", ",", "\"", "g", "e", "o", "m", "e", "t", "r",
       "y", "\"", ":" >>

CollectionOpen ==
    << "{", "\"", "t", "y", "p", "e", "\"", ":", "\"", "F", "e", "a", "t",
       "u", "r", "e", "C", "o", "l", "l", "e", "c", "t", "i", "o", "n",
       "\"", ",", "\"", "f", "e", "a", "t", "u", "r", "e", "s", "\"", ":",
       "[" >>

PolygonFeature ==
    << "{", "\"", "t", "y", "p", "e", "\"", ":", "\"", "F", "e", "a", "t",
       "u", "r", "e", "\"", ",", "\"", "g", "e", "o", "m", "e", "t", "r",
       "y", "\"", ":", "{", "\"", "t", "y", "p", "e", "\"", ":", "\"", "P",
       "o", "l", "y", "g", "o", "n", "\"", ",", "\"", "c", "o", "o", "r",
       "d", "i", "n", "a", "t", "e", "s", "\"", ":", "[", "[", "[", "4",
       ",", "4", "]", ",", "[", "5", ",", "4", "]", ",", "[", "5", ",",
       "5", "]", ",", "[", "4", ",", "4", "]", "]", "]", "}", "}" >>

\* Pieces of text around the type member.
TypeTail ==
    << "t", "y", "p", "e", "\"", ":", "\"", "\"" >>

TypeSpTail ==
    << "t", "y", "p", "e", "\"", ":", " ", "\"", "\"" >>

TypeOpen ==
    << "\"", "t", "y", "p", "e", "\"", ":", "\"" >>

TypeMember(ty, sp) ==
    << Quote >> \o K_type \o << Quote, ":" >> \o sp \o << Quote >> \o ty
    \o << Quote >>

CoordinatesMember(coords) ==
    << Quote >> \o K_coordinates \o << Quote, ":" >> \o coords

GeometryText(ty, sp, coords, typeFirst) ==
    IF typeFirst
    THEN << "{" >> \o TypeMember(ty, sp) \o << "," >>
         \o CoordinatesMember(coords) \o << "}" >>
    ELSE << "{" >> \o CoordinatesMember(coords) \o << "," >>
         \o TypeMember(ty, sp) \o << "}" >>

Document(level, geometry) ==
    CASE level = "Geometry" -> geometry
      [] level = "Feature" -> FeatureOpen \o geometry \o << "}" >>
      [] level = "FeatureCollection" ->
         CollectionOpen \o FeatureOpen \o geometry \o << "}", "," >>
         \o PolygonFeature \o << "]", "}" >>

\* CSV-style escaping: every quote doubled.
DoubleQuotes(s) ==
    Flatten([i \in 1 .. Len(s) |->
               IF s[i] = Quote THEN << Quote, Quote >> ELSE << s[i] >>])

\* The geometries of the coordinate texts above.
TheMultiPolygon ==
    << Poly(<< << Num(0, 1), Num(0, 1) >>, << Num(2, 1), Num(0, 1) >>,
               << Num(2, 1), Num(15, 10) >>, << Num(0, 1), Num(0, 1) >> >>,
            << >>) >>

ThePolygon ==
    << Poly(<< << Num(4, 1), Num(4, 1) >>, << Num(5, 1), Num(4, 1) >>,
               << Num(5, 1), Num(5, 1) >>, << Num(4, 1), Num(4, 1) >> >>,
            << >>) >>

Levels == {"Geometry", "Feature", "FeatureCollection"}

TypeNames == {<< >>, N_MultiPolygon, N_Polygon, N_Point}

Spacings == {<< >>, << " " >>, << " ", " " >>}

CoordTexts == {MultiPolygonCoords, PolygonCoords, PointCoords}

\* A document, and for an empty or MultiPolygon type (written so that a
\* rule applies to it) with MultiPolygon coordinates the geometries it
\* holds.
DocInput(level, ty, sp, coords, typeFirst, csv) ==
    LET text == Document(level, GeometryText(ty, sp, coords, typeFirst)) IN
    [fn |-> "open",
     content |-> IF csv THEN DoubleQuotes(text) ELSE text,
     emptyType |-> ty = << >> /\ ~csv,
     expect |->
        IF /\ coords = MultiPolygonCoords
           /\ \/ ty = N_MultiPolygon
              \/ ty = << >> /\ Len(sp) <= 1 /\ ~csv
        THEN << IF level = "FeatureCollection"
                THEN << TheMultiPolygon, ThePolygon >>
                ELSE << TheMultiPolygon >> >>
        ELSE << >>]

DocInputs ==
    {DocInput(level, ty, sp, coords, typeFirst, csv) :
        level \in Levels, ty \in TypeNames, sp \in Spacings,
        coords \in CoordTexts, typeFirst \in BOOLEAN, csv \in BOOLEAN}

Pieces ==
    << TypeEmpty, TypeSpEmpty, TypeMultiPolygon, TypeSpMultiPolygon,
       TypeTail, TypeSpTail, TypeOpen, << Quote >>, << Quote, Quote >>,
       << "x" >>, << >> >>

MaxPieces == 3

RECURSIVE Concat(_, _)
Concat(pieces, n) ==
    IF n = 0 THEN << >> ELSE Concat(pieces, n - 1) \o Pieces[pieces[n]]

TextInputs ==
    {[fn |-> "open", content |-> Concat(p, MaxPieces), emptyType |-> FALSE,
      expect |-> << >>] :
        p \in [1 .. MaxPieces -> 1 .. Len(Pieces)]}

InitGeojson ==
    \E a \in DocInputs \cup TextInputs :
        /\ Unbuilt(DefaultConfig, 1, {}, 0)
        /\ arg = a
        /\ ret = << >>

NextGeojson == GeojsonOpenCall

SpecGeojson == InitGeojson /\ [][NextGeojson]_vars

Occurrences(s, pat) == Cardinality({i \in 1 .. Len(s) : StartsAt(s, i, pat)})

\* The occurrences that start where no earlier counted one is still running.
RECURSIVE ScanCount(_, _, _)
ScanCount(s, pat, i) ==
    IF i > Len(s) THEN 0
    ELSE IF StartsAt(s, i, pat) THEN 1 + ScanCount(s, pat, i + Len(pat))
    ELSE ScanCount(s, pat, i + 1)

Opened == arg # << >> /\ arg.fn = "open" /\ ret # << >>

ExtractedAsMultiPolygon ==
    (Opened /\ arg.expect # << >>) => ret[1].result = Ok(arg.expect[1])

is_nan(v) == v.k = "nan"

\* Proj::new_known_crs(&srs_def, "EPSG:4326", None).ok()
new_known_crs(srs_def) ==
    IF srs_def.valid THEN << [fails |-> srs_def.fails] >> ELSE << >>

\* proj.convert: << >> is Err.  The projection itself is stood in for by
\* a move by (100, 50).
convert(proj, coord) ==
    IF coord \in proj.fails THEN << >>
    ELSE << << Num(coord[1].n + 100 * coord[1].d, coord[1].d),
               Num(coord[2].n + 50 * coord[2].d, coord[2].d) >> >>

\* The closure of map_coords.
ConvertOrNan(proj, coord) ==
    LET r == convert(proj, coord) IN
    IF r # << >> THEN r[1] ELSE << NaN, NaN >>

MapRing(ring, proj) ==
    [i \in 1 .. Len(ring) |-> ConvertOrNan(proj, ring[i])]

map_coords(multi, proj) ==
    [p \in 1 .. Len(multi) |->
       Poly(MapRing(multi[p].exterior, proj),
            [r \in 1 .. Len(multi[p].interiors) |->
               MapRing(multi[p].interiors[r], proj)])]

RingHasNan(ring) ==
    \E i \in 1 .. Len(ring) : is_nan(ring[i][1]) \/ is_nan(ring[i][2])

ReprojectMutExteriorOnly(multi, proj) ==
    LET reprojected == map_coords(multi, proj)
        has_nan == \E p \in 1 .. Len(reprojected) :
                       RingHasNan(reprojected[p].exterior)
    IN IF has_nan THEN << >> ELSE << reprojected >>

reproject_multipolygon(multi, proj) ==
    LET reprojected == map_coords(multi, proj)
        has_nan ==
            \E p \in 1 .. Len(reprojected) :
                \/ RingHasNan(reprojected[p].exterior)
                \/ \E r \in 1 .. Len(reprojected[p].interiors) :
                       RingHasNan(reprojected[p].interiors[r])
    IN IF has_nan THEN << >> ELSE << reprojected >>

\* db.srs is the row of gpkg_spatial_ref_sys for the layer's srs_id, << >>
\* when there is none; db.geometries is what read_geometries returns.
read_geometries_wgs84(db, layer) ==
    LET geometries == db.geometries IN
    IF layer.srs_id = 4326 THEN Ok(geometries)
    ELSE IF db.srs = << >> THEN Err("Database", << >>)
    ELSE LET srs_def == db.srs[1] IN
         Ok(Flatten([i \in 1 .. Len(geometries) |->
                       LET proj == new_known_crs(srs_def) IN
                       IF proj = << >> THEN << >>
                       ELSE reproject_multipolygon(geometries[i], proj[1])]))

ReadGeometriesWgs84Call ==
    /\ arg # << >>
    /\ arg.fn = "read_geometries_wgs84"
    /\ ret = << >>
    /\ ret' = << read_geometries_wgs84(arg.db, arg.layer) >>
    /\ UNCHANGED << rendererVars, arg >>

Pt(x, y) == << Num(x, 1), Num(y, 1) >>

RingAt(x, y) == << Pt(x, y), Pt(x + 2, y), Pt(x, y + 2), Pt(x, y) >>

\* Four geometries: plain, with a hole, of two polygons, and a second
\* plain one.
LayerGeometries ==
    << << Poly(RingAt(0, 0), << >>) >>,
       << Poly(RingAt(10, 0), << RingAt(11, 1) >>) >>,
       << Poly(RingAt(20, 0), << >>), Poly(RingAt(30, 0), << >>) >>,
       << Poly(RingAt(40, 0), << >>) >> >>

\* One vertex of the first exterior, of the hole, and of the second
\* polygon of the third geometry.
FailingCoords == {Pt(2, 0), Pt(11, 3), Pt(30, 2)}

MaxGeometries == 3

GeometryLists ==
    UNION {[1 .. n -> 1 .. Len(LayerGeometries)] : n \in 0 .. MaxGeometries}

SrsRows ==
    {<< >>} \cup {<< [valid |-> v, fails |-> f] >> :
                    v \in BOOLEAN, f \in SUBSET FailingCoords}

InitWgs84 ==
    \E gl \in GeometryLists, srs_id \in {4326, 2154}, row \in SrsRows :
        /\ Unbuilt(DefaultConfig, 1, {}, 0)
        /\ arg = [fn |-> "read_geometries_wgs84",
                  layer |-> [srs_id |-> srs_id],
                  db |-> [geometries |->
                             [i \in 1 .. Len(gl) |-> LayerGeometries[gl[i]]],
                          srs |-> row]]
        /\ ret = << >>

NextWgs84 == ReadGeometriesWgs84Call

SpecWgs84 == InitWgs84 /\ [][NextWgs84]_vars

RingsOf(multipolygon) ==
    UNION {{multipolygon[p].exterior} \cup
           {multipolygon[p].interiors[r] :
              r \in 1 .. Len(multipolygon[p].interiors)} :
           p \in 1 .. Len(multipolygon)}

\* The geometries every coordinate of which the transformer converts.
Convertible(db) ==
    {i \in 1 .. Len(db.geometries) :
        /\ db.srs[1].valid
        /\ \A ring \in RingsOf(db.geometries[i]) :
               \A k \in 1 .. Len(ring) : ring[k] \notin db.srs[1].fails}

Moved(coord) ==
    << Num(coord[1].n + 100 * coord[1].d, coord[1].d),
       Num(coord[2].n + 50 * coord[2].d, coord[2].d) >>

MovedRing(ring) == [k \in 1 .. Len(ring) |-> Moved(ring[k])]

MovedGeometry(multipolygon) ==
    [p \in 1 .. Len(multipolygon) |->
       Poly(MovedRing(multipolygon[p].exterior),
            [r \in 1 .. Len(multipolygon[p].interiors) |->
               MovedRing(multipolygon[p].interiors[r])])]

Wgs84Returned ==
    arg # << >> /\ arg.fn = "read_geometries_wgs84" /\ ret # << >>

\* C16: for srs_id 4326 the geometries are returned unchanged; otherwise,
\* when the definition is found, the result is Ok and holds, in the
\* original order, the transformed geometries of exactly those whose
\* transformer was built and whose every coordinate was converted; a
\* failed conversion or a definition PROJ rejects never gives an error.
C16_Reprojected ==
    Wgs84Returned =>
        IF arg.layer.srs_id = 4326 THEN ret[1] = Ok(arg.db.geometries)
        ELSE IF arg.db.srs = << >> THEN ~ret[1].ok
        ELSE LET kept == Convertible(arg.db) IN
             /\ ret[1].ok
             /\ Len(ret[1].val) = Cardinality(kept)
             /\ \A i \in kept :
                    ret[1].val[Cardinality({j \in kept : j <= i})]
                        = MovedGeometry(arg.db.geometries[i])

\* Three geometries, the middle one with a hole vertex that cannot be
\* converted: the first and the third are returned, in that order.
C16_Witness ==
    /\ Wgs84Returned
    /\ arg.layer.srs_id # 4326
    /\ arg.db.srs # << >>
    /\ Len(arg.db.geometries) = 3
    /\ Convertible(arg.db) = {1, 3}
    /\ arg.db.geometries[1] # arg.db.geometries[3]
    /\ ret[1].ok
    /\ Len(ret[1].val) = 2

(***************************************************************************)
(* From the arguments to Renderer::new (src/src/main.rs): the bounding box *)
(* is the one of --bbox or is detected from the input.  Coordinates are    *)
(* whole numbers of the renderer's unit, and --resolution is given.        *)
(***************************************************************************)
MinOf(S) == CHOOSE x \in S : \A y \in S : x <= y

MaxOf(S) == CHOOSE x \in S : \A y \in S : y <= x

\* GeojsonReader::compute_bbox: << >> is None.
compute_bbox(geometries) ==
    IF geometries = << >> THEN << >>
    ELSE LET coords ==
                 UNION {{ring[k] : k \in 1 .. Len(ring)} :
                          ring \in UNION {RingsOf(geometries[g]) :
                                            g \in 1 .. Len(geometries)}}
         IN IF coords = {} THEN << >>
            ELSE << Bbox_new(MinOf({c[1] : c \in coords}),
                             MinOf({c[2] : c \in coords}),
                             MaxOf({c[1] : c \in coords}),
                             MaxOf({c[2] : c \in coords})) >>

\* The corners that convert give the bounds; << >> is None.
reproject_bbox_to_wgs84(min_x, min_y, max_x, max_y, srs_def) ==
    LET proj == new_known_crs(srs_def) IN
    IF proj = << >> THEN << >>
    ELSE LET corners == {Pt(min_x, min_y), Pt(max_x, min_y),
                         Pt(max_x, max_y), Pt(min_x, max_y)}
             done == {convert(proj[1], c)[1] :
                        c \in {c \in corners : convert(proj[1], c) # << >>}}
         IN IF done = {} THEN << >>
            ELSE << << MinOf({c[1].n : c \in done}),
                       MinOf({c[2].n : c \in done}),
                       MaxOf({c[1].n : c \in done}),
                       MaxOf({c[2].n : c \in done}) >> >>

\* The loop over layers_to_process of process_gpkg.
RECURSIVE UnionLoop(_, _, _)
UnionLoop(layers, i, union_bbox) ==
    IF i > Len(layers) THEN union_bbox
    ELSE LET b == layers[i].bbox
             r == IF b = << >> THEN << >>
                  ELSE reproject_bbox_to_wgs84(b[1][1], b[1][2], b[1][3],
                                               b[1][4], layers[i].srs_def)
         IN UnionLoop(layers, i + 1,
                IF r = << >> THEN union_bbox
                ELSE IF union_bbox = << >> THEN r
                ELSE << << Min(union_bbox[1][1], r[1][1]),
                           Min(union_bbox[1][2], r[1][2]),
                           Max(union_bbox[1][3], r[1][3]),
                           Max(union_bbox[1][4], r[1][4]) >> >>)

\* The bounding box of process_gpkg when --bbox is absent.
DetectGpkgBbox(layers) ==
    LET union_bbox == UnionLoop(layers, 1, << >>) IN
    IF union_bbox = << >>
    THEN Err("InvalidBbox", << "Could not determine bounding box" >>)
    ELSE Ok(Bbox_new(union_bbox[1][1], union_bbox[1][2], union_bbox[1][3],
                     union_bbox[1][4]))

\* The bounding box of process_geojson when --bbox is absent.
DetectGeojsonBbox(geometries) ==
    LET bbox == compute_bbox(geometries) IN
    IF bbox = << >>
    THEN Err("InvalidBbox", << "Could not determine bounding box" >>)
    ELSE Ok(bbox[1])

\* Args::validate on --bbox: the option parsed, in the renderer's unit.
ConfigBbox(option) ==
    IF option = << >> THEN Ok(<< >>)
    ELSE LET r == parse_bbox(option[1]) IN
         IF ~r.ok THEN r
         ELSE Ok(<< Bbox_new(r.val.min_lon.n, r.val.min_lat.n,
                             r.val.max_lon.n, r.val.max_lat.n) >>)

\* run(): validate, then process_geojson or process_gpkg up to the
\* RenderConfig handed to Renderer::new.
ProcessInput ==
    /\ rstate = "start"
    /\ LET option == ConfigBbox(arg.bbox)
           bbox == IF ~option.ok THEN option
                   ELSE IF option.val # << >> THEN Ok(option.val[1])
                   ELSE IF arg.fn = "process_geojson"
                   THEN DetectGeojsonBbox(arg.geometries)
                   ELSE DetectGpkgBbox(arg.layers)
       IN IF bbox.ok
          THEN /\ config' = RenderConfig(bbox.val, arg.resolution,
                                         config.fill, config.stroke,
                                         config.stroke_width)
               /\ rstate' = "none"
               /\ UNCHANGED error
          ELSE /\ rstate' = "err"
               /\ error' = << bbox.err >>
               /\ UNCHANGED config
    /\ UNCHANGED << threads, inputs, budget, width, height, image, phase, mp,
                    scanline_table, bands, strokers, file, renders, saves,
                    pre, fillSet, strokeSet, bandWrites, arg, ret >>

Chars4(a, b, c, e) == << a, ",", b, ",", c, ",", e >>

\* --bbox: absent, valid, and two that parse_bbox rejects.
BboxArgs ==
    {<< >>, << Chars4("0", "0", "4", "6") >>, << Chars4("4", "0", "0", "6") >>,
     << Chars4("1", "1", "1", "5") >>}

IntRing(x0, y0, x1, y1) ==
    << << x0, y0 >>, << x1, y0 >>, << x1, y1 >>, << x0, y1 >>, << x0, y0 >> >>

\* GeoJSON inputs: a rectangle, two rectangles, and polygons all of whose
\* vertices share a longitude, a latitude, or both.
GeojsonGeometries ==
    {<< << Poly(IntRing(1, 1, 4, 5), << >>) >> >>,
     << << Poly(IntRing(1, 1, 2, 2), << >>) >>,
        << Poly(IntRing(3, 3, 5, 4), << IntRing(4, 3, 5, 4) >>) >> >>,
     << << Poly(IntRing(2, 1, 2, 5), << >>) >> >>,
     << << Poly(IntRing(1, 3, 4, 3), << >>) >> >>,
     << << Poly(IntRing(2, 2, 2, 2), << >>) >> >>}

\* gpkg_contents rows: no bounds, a rectangle, one with min and max
\* swapped, a point; definitions: accepted, rejected, and one whose
\* transformer converts a single corner of the rectangle.
LayerBboxes ==
    {<< >>, << << 0, 0, 4, 6 >> >>, << << 8, 8, 6, 7 >> >>,
     << << 2, 2, 2, 2 >> >>}

LayerDefinitions ==
    {[valid |-> TRUE, fails |-> {}], [valid |-> FALSE, fails |-> {}],
     [valid |-> TRUE, fails |-> {Pt(4, 0), Pt(4, 6), Pt(0, 6)}]}

LayerSet == {[bbox |-> b, srs_def |-> d] : b \in LayerBboxes,
                                           d \in LayerDefinitions}

MaxLayers == 2

LayerLists == UNION {[1 .. n -> LayerSet] : n \in 1 .. MaxLayers}

MainInputs ==
    {[fn |-> "process_geojson", bbox |-> b, resolution |-> r,
      geometries |-> g, layers |-> << >>] :
        b \in BboxArgs, r \in 1 .. 2, g \in GeojsonGeometries}
    \cup {[fn |-> "process_gpkg", bbox |-> b, resolution |-> 1,
           geometries |-> << >>, layers |-> l] :
            b \in BboxArgs, l \in LayerLists}

InitMain ==
    \E a \in MainInputs :
        /\ config = DefaultConfig
        /\ threads = 1
        /\ inputs = {}
        /\ budget = 0
        /\ rstate = "start"
        /\ width = 0
        /\ height = 0
        /\ image = << >>
        /\ error = << >>
        /\ phase = "idle"
        /\ mp = << >>
        /\ scanline_table = ScanlineTable_new(0, 0)
        /\ bands = << >>
        /\ strokers = << >>
        /\ file = << >>
        /\ renders = 0
        /\ saves = 0
        /\ pre = << >>
        /\ fillSet = {}
        /\ strokeSet = {}
        /\ bandWrites = {}
        /\ arg = a
        /\ ret = << >>

NextMain == ProcessInput \/ RendererNew

SpecMain == InitMain /\ [][NextMain]_vars

\* C18: the Bbox handed to Renderer::new has min_lon < max_lon and
\* min_lat < max_lat, whether it comes from --bbox, from the GeoJSON
\* vertices or from the union of the reprojected layer bounds.
C18_BboxInvariant ==
    (arg # << >> /\ arg.fn \in {"process_geojson", "process_gpkg"}
       /\ rstate \in {"none", "ok"}) =>
        /\ config.bbox.min_lon < config.bbox.max_lon
        /\ config.bbox.min_lat < config.bbox.max_lat

(***************************************************************************)
(* The bands of the fill pass, over a range of image heights and worker    *)
(* counts: a window one unit wide, and a polygon that covers it.           *)
(***************************************************************************)
MaxBandHeight == 8

MaxBandThreads == 2

Column(h) == << Poly(Rect(0, 0, 1, h), << >>) >>

\* No stroke, but for one height, where the stroke runs after the bands.
BandConfigs ==
    {RenderConfig(Bbox_new(0, 0, 1, h), 1, Red, Blue, 0) :
        h \in 0 .. MaxBandHeight}
    \cup {RenderConfig(Bbox_new(0, 0, 1, 2), 1, RedHalf, Blue, 1)}

InitBands ==
    \E cfg \in BandConfigs, thr \in 1 .. MaxBandThreads :
        /\ Unbuilt(cfg, thr, {Column(cfg.bbox.max_lat)}, MaxRenders)
        /\ NoCall

SpecBands == InitBands /\ [][Next]_vars

\* num_bands = max(1, workers) * 4 and band_height = ceil(height / num_bands).
ExpectedBands == Max(1, threads) * 4

ExpectedBandHeight ==
    IF height = 0 THEN 0 ELSE ((height - 1) \div ExpectedBands) + 1

\* The rows y_start <= y < y_end of band b.
ExpectedRows(b) ==
    {y \in 0 .. height - 1 :
        /\ b * ExpectedBandHeight <= y
        /\ y < (b + 1) * ExpectedBandHeight}

RowsWrittenBy(b) == {w[2][2] : w \in {v \in bandWrites : v[1] = b}}

\* C20: the row ranges of the bands are pairwise disjoint and their union
\* is [0, height); a band composites only pixels of its own rows, no pixel
\* is composited by two bands in one fill pass, and when the pass is over
\* each band has composited exactly its rows of the covering polygon.
C20_BandRows ==
    rstate = "ok" =>
        /\ \A b1, b2 \in 0 .. ExpectedBands - 1 :
               b1 # b2 => ExpectedRows(b1) \cap ExpectedRows(b2) = {}
        /\ UNION {ExpectedRows(b) : b \in 0 .. ExpectedBands - 1}
               = 0 .. height - 1
        /\ \A w \in bandWrites :
               /\ w[1] \in 0 .. ExpectedBands - 1
               /\ w[2][2] \in ExpectedRows(w[1])
        /\ \A w1, w2 \in bandWrites : w1[2] = w2[2] => w1[1] = w2[1]
        /\ (renders > 0 /\ phase # "fill") =>
               \A b \in 0 .. ExpectedBands - 1 :
                   RowsWrittenBy(b) = ExpectedRows(b)

\* Height 5 on one worker: four bands of rows {0,1}, {2,3}, {4} and {}.
C20_Witness ==
    /\ rstate = "ok"
    /\ height = 5
    /\ threads = 1
    /\ renders = 1
    /\ phase = "idle"
    /\ RowsWrittenBy(0) = {0, 1}
    /\ RowsWrittenBy(1) = {2, 3}
    /\ RowsWrittenBy(2) = {4}
    /\ RowsWrittenBy(3) = {}
    /\ image = from_pixel(1, 5, Red)


(***************************************************************************)
(* The stroke pass with wider brushes (render.rs, draw_line).              *)
(***************************************************************************)
MaxStrokeWidth == 3

Grey == << 7, 8, 9 >>

\* A ring that leaves the window on three sides.
ShapeSlant ==
    << Poly(<< << -2, 1 >>, << 6, 4 >>, << 3, 7 >>, << -2, 1 >> >>, << >>) >>

StrokeShapes == {ShapeTriangle, ShapeTwo, ShapeHole, ShapeSlant}

StrokeConfigs ==
    { RenderConfig(Window5, 1, c[1], c[2], sw) :
        c \in {<< Red, Blue >>, << RedHalf, Grey >>},
        sw \in 1 .. MaxStrokeWidth }
    \cup { RenderConfig(Window5Half, 2, RedHalf, Blue, 2) }

InitStroke ==
    \E cfg \in StrokeConfigs :
        Unbuilt(cfg, 1, StrokeShapes, 1) /\ NoCall

SpecStroke == InitStroke /\ [][Next]_vars

\* The points of the Bresenham line from (x0, y0) to (x1, y1), in closed
\* form: one point per step along the longer axis, the other coordinate
\* being the nearest integer of the line, halves away from the start.
BresenhamPoints(x0, y0, x1, y1) ==
    LET adx == Abs(x1 - x0)
        ady == Abs(y1 - y0)
        n   == Max(adx, ady)
    IN IF n = 0 THEN {<< x0, y0 >>}
       ELSE {<< x0 + (IF x0 < x1 THEN 1 ELSE -1)
                         * ((2 * k * adx + n) \div (2 * n)),
                y0 + (IF y0 < y1 THEN 1 ELSE -1)
                         * ((2 * k * ady + n) \div (2 * n)) >> : k \in 0 .. n}

\* The Bresenham points of the segments between consecutive vertices of
\* every ring of the MultiPolygon of the call, on the `as i32` pixels.
StrokePoints ==
    UNION { LET sc == Projected(RingOf(t[1], t[2])) IN
            IF t[3] + 1 > Len(sc) THEN {}
            ELSE BresenhamPoints(Trunc(sc[t[3]][1], config.resolution),
                                 Trunc(sc[t[3]][2], config.resolution),
                                 Trunc(sc[t[3] + 1][1], config.resolution),
                                 Trunc(sc[t[3] + 1][2], config.resolution)) :
            t \in EdgeKeys }

\* The in-image pixels of the squares of half-width stroke_width / 2.
StrokeSquares ==
    LET hw == config.stroke_width \div 2 IN
    {xy \in DOMAIN image :
        \E q \in StrokePoints : Abs(xy[1] - q[1]) <= hw /\ Abs(xy[2] - q[2]) <= hw}

\* C21: after render_multipolygon with stroke_width > 0, every in-image
\* pixel within the square of half-width stroke_width / 2 around a Bresenham
\* point of a segment between consecutive vertices of a ring is exactly
\* (stroke R, G, B, 255), and the stroke pass touched no pixel outside the
\* image.
C21_StrokeSquares ==
    (CallReturned /\ config.stroke_width > 0) =>
        /\ \A xy \in StrokeSquares :
              image[xy] = << config.stroke[1], config.stroke[2],
                             config.stroke[3], 255 >>
        /\ strokeSet \subseteq DOMAIN image

\* A call with a brush of half-width 1 has returned: the ring leaves the
\* window, the square around the in-image point (0, 3) is stroked over a
\* half-transparent fill, and a pixel that is on no Bresenham point is
\* stroked.
C21_Witness ==
    /\ CallReturned
    /\ config.stroke_width = 3
    /\ config.fill = RedHalf
    /\ config.stroke = Grey
    /\ mp = ShapeSlant
    /\ << 0, 3 >> \in StrokePoints
    /\ << 1, 2 >> \in StrokeSquares \ StrokePoints
    /\ image[<< 1, 2 >>] = << 7, 8, 9, 255 >>
    /\ \E q \in StrokePoints : q \notin DOMAIN image


(***************************************************************************)
(* Edge::new on f64 points (src/src/render/edge.rs).  A finite f64 is the  *)
(* rational n / d in lowest terms; Edge_new above is its restriction to    *)
(* finite points over one denominator.                                     *)
(***************************************************************************)
RECURSIVE GCD(_, _)
GCD(a, b) == IF b = 0 THEN a ELSE GCD(b, a % b)

Rat(n, d) ==
    LET g == GCD(Abs(n), d) IN [k |-> "num", n |-> n \div g, d |-> d \div g]

\* a - b on f64: inf - inf of one sign is NaN.
F64Sub(a, b) ==
    CASE a.k = "nan" \/ b.k = "nan" -> NaN
      [] a.k = "inf" /\ b.k = "inf" -> IF a.neg = b.neg THEN NaN ELSE a
      [] a.k = "inf" -> a
      [] b.k = "inf" -> Inf(~b.neg)
      [] OTHER -> LET g == GCD(a.d, b.d) IN
                  Rat(a.n * (b.d \div g) - b.n * (a.d \div g),
                      (a.d \div g) * b.d)

F64Abs(a) ==
    CASE a.k = "nan" -> NaN
      [] a.k = "inf" -> Inf(FALSE)
      [] OTHER -> [a EXCEPT !.n = Abs(a.n)]

\* a < b on f64: false when either is NaN.  Finite values are compared by
\* their integer parts, then by their fractional parts.
F64Lt(a, b) ==
    CASE a.k = "nan" \/ b.k = "nan" -> FALSE
      [] a.k = "inf" -> a.neg /\ ~(b.k = "inf" /\ b.neg)
      [] b.k = "inf" -> ~b.neg
      [] a.n \div a.d # b.n \div b.d -> a.n \div a.d < b.n \div b.d
      [] OTHER -> LET g == GCD(a.d, b.d) IN
                  (a.n % a.d) * (b.d \div g) < (b.n % b.d) * (a.d \div g)

\* a / b on f64, for a finite a.
F64Div(a, b) ==
    CASE a.k = "nan" \/ b.k = "nan" -> NaN
      [] b.k = "inf" -> Rat(0, 1)
      [] b.n = 0 -> IF a.n = 0 THEN NaN ELSE Inf(a.n < 0)
      [] OTHER -> LET g == GCD(Abs(a.n), Abs(b.n))
                      h == GCD(a.d, b.d)
                      n == (a.n \div g) * (b.d \div h)
                      d == (a.d \div h) * (b.n \div g)
                  IN IF d < 0 THEN Rat(0 - n, 0 - d) ELSE Rat(n, d)

I32_MAX == 2147483647

\* f64::round then `as i32`: NaN is 0, the infinities saturate.
F64RoundAsI32(a) ==
    CASE a.k = "nan" -> 0
      [] a.k = "inf" -> IF a.neg THEN 0 - I32_MAX - 1 ELSE I32_MAX
      [] OTHER -> Round(a.n, a.d)

Epsilon == Rat(1, 1000000000)

\* Edge::new(p1, p2): << >> is None.
Edge_new_f64(p1, p2) ==
    LET y1 == p1[2]
        y2 == p2[2]
    IN IF F64Lt(F64Abs(F64Sub(y1, y2)), Epsilon) THEN << >>
       ELSE LET p_start == IF F64Lt(y1, y2) THEN p1 ELSE p2
                p_end   == IF F64Lt(y1, y2) THEN p2 ELSE p1
                inv_slope == F64Div(F64Sub(p_end[1], p_start[1]),
                                    F64Sub(p_end[2], p_start[2]))
            IN << [y_max |-> F64RoundAsI32(p_end[2]),
                   x_current |-> p_start[1],
                   inv_slope |-> inv_slope] >>

\* Edge::new called on (p1, p2) and on (p2, p1).
EdgeNewCall ==
    /\ arg # << >>
    /\ arg.fn = "Edge::new"
    /\ ret = << >>
    /\ ret' = << [forward  |-> Edge_new_f64(arg.p1, arg.p2),
                  backward |-> Edge_new_f64(arg.p2, arg.p1)] >>
    /\ UNCHANGED << rendererVars, arg >>

\* Ordinary points: y values with halves of both signs, a NaN and the
\* infinities (a NaN ordinate is what a GeoPackage blob may carry).
EdgeXs == {Rat(0, 1), Rat(1, 1), Rat(5, 1), Rat(-2, 1), Rat(7, 2)}

EdgeYs ==
    {Rat(-3, 1), Rat(-1, 2), Rat(0, 1), Rat(1, 2), Rat(3, 2), Rat(2, 1),
     Rat(5, 2), Rat(10, 1), NaN, Inf(FALSE), Inf(TRUE)}

\* Nearly horizontal segments: ordinates 0, 5e-10 and 1e-9.
FlatXs == {Rat(0, 1), Rat(1, 1)}

FlatYs == {Rat(0, 1), Rat(1, 2000000000), Rat(1, 1000000000)}

EdgePoints == (EdgeXs \X EdgeYs)

FlatPoints == (FlatXs \X FlatYs)

InitEdge ==
    \E pq \in (EdgePoints \X EdgePoints) \cup (FlatPoints \X FlatPoints) :
        /\ Unbuilt(DefaultConfig, 1, {}, 0)
        /\ arg = [fn |-> "Edge::new", p1 |-> pq[1], p2 |-> pq[2]]
        /\ ret = << >>

NextEdge == EdgeNewCall

SpecEdge == InitEdge /\ [][NextEdge]_vars

EdgeReturned == arg # << >> /\ arg.fn = "Edge::new" /\ ret # << >>

\* The edge the sentence describes for two points of different finite y.
StatedEdge(p1, p2) ==
    LET lo == IF F64Lt(p2[2], p1[2]) THEN p2 ELSE p1
        hi == IF F64Lt(p2[2], p1[2]) THEN p1 ELSE p2
    IN [y_max |-> F64RoundAsI32(hi[2]),
        x_current |-> lo[1],
        inv_slope |-> F64Div(F64Sub(hi[1], lo[1]), F64Sub(hi[2], lo[2]))]

\* C22: Edge::new(p1, p2) is None exactly when |y1 - y2| < 1e-9; otherwise
\* it is the same edge for (p1, p2) and (p2, p1), with x_current the x of
\* the endpoint of smaller y, y_max the rounded larger y, and inv_slope
\* (x_end - x_start) / (y_end - y_start) from the smaller-y endpoint to the
\* larger-y one.
C22_EdgeNew ==
    EdgeReturned =>
        LET flat == F64Lt(F64Abs(F64Sub(arg.p1[2], arg.p2[2])), Epsilon) IN
        /\ (ret[1].forward = << >>) <=> flat
        /\ ~flat =>
              /\ ret[1].forward = ret[1].backward
              /\ ret[1].forward = << StatedEdge(arg.p1, arg.p2) >>

\* The same for points whose ordinates are numbers, two infinities of one
\* sign excepted.
EdgeNewOrdered ==
    (/\ EdgeReturned
     /\ arg.p1[2].k # "nan"
     /\ arg.p2[2].k # "nan"
     /\ ~(arg.p1[2].k = "inf" /\ arg.p1[2] = arg.p2[2])) =>
        LET flat == F64Lt(F64Abs(F64Sub(arg.p1[2], arg.p2[2])), Epsilon) IN
        /\ (ret[1].forward = << >>) <=> flat
        /\ ~flat =>
              /\ ret[1].forward = ret[1].backward
              /\ ret[1].forward = << StatedEdge(arg.p1, arg.p2) >>


(***************************************************************************)
(* A ScanlineTable on its own (edge.rs): created with (y_min, height),     *)
(* then extract_from_polygon called on it; mp is the sequence of the       *)
(* polygons extracted so far, height the img_height of the calls.          *)
(***************************************************************************)
MaxExtracts == 2

MaxTableRows == 4

TableYMins == {-2, 0, 2}

\* A ring that is not closed, as extract_from_ring may be handed one.
OpenRing == << << 1, 1 >>, << 4, 2 >>, << 2, 4 >> >>

TablePolygons ==
    {ShapeRect[1], ShapeHole[1], ShapeTriangle[1], ShapeSlant[1], ShapeDot[1],
     Poly(OpenRing, << >>), Poly(Rect(0, -2, 2, 3), << Rect(3, -2, 4, 0) >>),
     Poly(<< << 1, 1 >>, << 3, 4 >>, << 5, 1 >>, << 1, 1 >> >>, << >>)}

InitTable ==
    \E cfg \in {RenderConfig(Window5, 1, Red, Blue, 0),
                RenderConfig(Window5Half, 2, Red, Blue, 0)},
       y_min \in TableYMins, rows \in 0 .. MaxTableRows :
        /\ config = cfg
        /\ threads = 1
        /\ inputs = TablePolygons
        /\ budget = MaxExtracts
        /\ rstate = "none"
        /\ width = 5
        /\ height = 5
        /\ image = << >>
        /\ error = << >>
        /\ phase = "table"
        /\ mp = << >>
        /\ scanline_table = ScanlineTable_new(y_min, rows)
        /\ bands = << >>
        /\ strokers = << >>
        /\ file = << >>
        /\ renders = 0
        /\ saves = 0
        /\ pre = << >>
        /\ fillSet = {}
        /\ strokeSet = {}
        /\ bandWrites = {}
        /\ arg = [fn |-> "ScanlineTable::new", y_min |-> y_min,
                  height |-> rows]
        /\ ret = << >>

\* extract_from_polygon(polygon, bbox, resolution, img_height) on the table.
ExtractFromPolygon(polygon) ==
    /\ phase = "table"
    /\ Len(mp) < budget
    /\ scanline_table' = extract_from_polygon(scanline_table, polygon,
                                              config.bbox, config.resolution,
                                              height)
    /\ mp' = Append(mp, polygon)
    /\ UNCHANGED << config, threads, inputs, budget, rstate, width, height,
                    image, error, phase, bands, strokers, file, renders,
                    saves, pre, fillSet, strokeSet >>
    /\ UNCHANGED << bandWrites, arg, ret >>

NextTable == \E polygon \in inputs : ExtractFromPolygon(polygon)

SpecTable == InitTable /\ [][NextTable]_vars

\* The segments of a ring in traversal order, the wrap-around pair last;
\* a ring of fewer than 3 coordinates has none.
RingSegments(ring) ==
    IF Len(ring) < 3 THEN << >>
    ELSE [i \in 1 .. Len(ring) |->
             << Projected(ring)[i], Projected(ring)[(i % Len(ring)) + 1] >>]

PolygonSegments(polygon) ==
    RingSegments(polygon.exterior)
    \o ConcatRange([j \in 1 .. Len(polygon.interiors) |->
                       RingSegments(polygon.interiors[j])],
                   1, Len(polygon.interiors))

\* The segments of the polygons extracted so far, in the order of the calls.
ExtractedSegments ==
    ConcatRange([c \in 1 .. Len(mp) |-> PolygonSegments(mp[c])], 1, Len(mp))

\* round(min(y1, y2)) of a segment.
StartScanline(s) == Round(Min(s[1][2], s[2][2]), config.resolution)

\* The edges of the non-horizontal segments that start on scanline y.
StartingAt(y) ==
    LET segs == SelectSeq(ExtractedSegments,
                          LAMBDA s : s[1][2] # s[2][2] /\ StartScanline(s) = y)
    IN [k \in 1 .. Len(segs) |->
           Edge_new(segs[k][1], segs[k][2], config.resolution)[1]]

\* C23: after any sequence of extract_from_polygon calls on a table created
\* with (y_min, height), entries has exactly height rows and row i holds,
\* in ring-traversal order, the edges of the non-horizontal segments whose
\* start scanline round(min(y1, y2)) is y_min + i, and nothing else; so a
\* segment that starts below y_min or at y_min + height or later is in no
\* row.
C23_TableRows ==
    phase = "table" =>
        /\ scanline_table.y_min = arg.y_min
        /\ Len(scanline_table.entries) = arg.height
        /\ \A i \in 1 .. arg.height :
              scanline_table.entries[i] = StartingAt(arg.y_min + i - 1)

\* Two polygons have been extracted into a table of rows 2 .. 4: rows hold
\* edges of the first and of the second call, one segment starts above the
\* table and one below it.
C23_Witness ==
    /\ phase = "table"
    /\ Len(mp) = 2
    /\ arg.y_min = 2
    /\ arg.height = 3
    /\ mp[2] = Poly(OpenRing, << >>)
    /\ Len(scanline_table.entries[1]) = 2
    /\ Len(scanline_table.entries[2]) = 1
    /\ \E k \in 1 .. Len(ExtractedSegments) :
          /\ ExtractedSegments[k][1][2] # ExtractedSegments[k][2][2]
          /\ StartScanline(ExtractedSegments[k]) < 2
    /\ \E k \in 1 .. Len(ExtractedSegments) :
          /\ ExtractedSegments[k][1][2] # ExtractedSegments[k][2][2]
          /\ StartScanline(ExtractedSegments[k]) >= 5


(***************************************************************************)
(* The active edge table of a band (render.rs, the loop over y).           *)
(***************************************************************************)
\* The GET edges with start scanline s <= y < y_max, as << s, position >>.
ActiveKeys(y) ==
    UNION { {<< s, k >> : k \in {j \in 1 .. Len(scanline_table.entries[s + 1]) :
                                    scanline_table.entries[s + 1][j].y_max > y}} :
            s \in 0 .. Min(y, Len(scanline_table.entries) - 1) }

\* The GET edge of a key with x_current = (start x) + n * inv_slope.
EdgeAfter(key, n) ==
    LET e == scanline_table.entries[key[1] + 1][key[2]] IN
    [e EXCEPT !.x_num = e.x_num + n * e.s_num]

\* How often the edge e occurs in the sequence aet.
Occurs(aet, e) == Cardinality({k \in 1 .. Len(aet) : aet[k] = e})

\* The band closure i has emitted the spans of a row: the row before its
\* next one.
HasEmitted(i) == bands[i].y > BandRange(i - 1).y_start

\* C24: in every band, when the spans of row y are emitted the active edge
\* table holds exactly the GET edges with start scanline s <= y < y_max,
\* each with x_current = (start x) + (y - s) * inv_slope, and so no edge
\* with y_max <= y; stated on the table the closure keeps after the row,
\* where every x_current has advanced by one more inv_slope.
C24_ActiveEdges ==
    \A i \in DOMAIN bands :
        HasEmitted(i) =>
            LET y == bands[i].y - 1 IN
            /\ Len(bands[i].aet) = Cardinality(ActiveKeys(y))
            /\ \A key \in ActiveKeys(y) :
                  Occurs(bands[i].aet, EdgeAfter(key, y + 1 - key[1]))
                      = Cardinality({q \in ActiveKeys(y) :
                                        EdgeAfter(q, y + 1 - q[1])
                                            = EdgeAfter(key, y + 1 - key[1])})
            /\ \A k \in 1 .. Len(bands[i].aet) : bands[i].aet[k].y_max > y

\* The band that owns row 3 alone has emitted it for the triangle: it has
\* scanned rows 0 .. 2 without emitting, and holds the slanted edge that
\* started on row 1, advanced three times.
C24_Witness ==
    /\ phase = "fill"
    /\ mp = ShapeTriangle
    /\ \E i \in DOMAIN bands :
          /\ BandRange(i - 1).y_start = 3
          /\ bands[i].y = 4
          /\ \E k \in 1 .. Len(bands[i].aet) :
                /\ bands[i].aet[k].s_num # 0
                /\ << 1, 1 >> \in ActiveKeys(3) \/ << 1, 2 >> \in ActiveKeys(3)
                /\ \E key \in ActiveKeys(3) :
                      /\ key[1] = 1
                      /\ bands[i].aet[k] = EdgeAfter(key, 3)
                      /\ bands[i].aet[k] # EdgeAfter(key, 0)


(***************************************************************************)
(* render_multipolygon and save at the level of the image mutex            *)
(* (render.rs).  Each worker closure is a record with its position `pc`    *)
(* and the number `guard` of MutexGuards it holds; the mutex is locked     *)
(* exactly while a guard is alive.                                         *)
(***************************************************************************)
\* No MutexGuard of self.image is alive: lock() returns without waiting.
MutexFree ==
    /\ \A i \in DOMAIN bands : bands[i].guard = 0
    /\ \A k \in DOMAIN strokers : strokers[k].guard = 0
    /\ phase # "saving"

GuardMutKept(g) == g

\* let mut img = self.image.lock().unwrap()
GuardTaken(g) == g + 1

\* `img` goes out of scope at the end of the block that took it.
GuardDropped(g) == g - 1

\* render_multipolygon(m), up to the start of the parallel band loop; a
\* band with y_start >= y_end returns at once.
CallRender(m) ==
    /\ rstate = "ok"
    /\ phase = "idle"
    /\ renders < budget
    /\ mp' = m
    /\ scanline_table' = BuildGET(ScanlineTable_new(0, height), m, 1,
                                  config.bbox, config.resolution, height)
    /\ bands' = [i \in 1 .. num_bands |->
                    [y |-> 0, aet |-> << >>, todo |-> << >>, guard |-> 0,
                     pc |-> IF BandRange(i - 1).y_start
                                >= BandRange(i - 1).y_end
                            THEN "done" ELSE "scan"]]
    /\ strokers' = << >>
    /\ phase' = "fill"
    /\ renders' = renders + 1
    /\ saves' = 0
    /\ pre' = image
    /\ fillSet' = {}
    /\ strokeSet' = {}
    /\ bandWrites' = {}
    /\ UNCHANGED << config, threads, inputs, budget, rstate, width, height,
                    image, error, file, arg, ret >>

\* The position of the band closure i - 1 after the row y.
AfterRow(i, y) == IF y + 1 >= BandRange(i - 1).y_end THEN "done" ELSE "scan"

\* Row y of the band closure i - 1 up to the test peek().is_some(): a row
\* with spans to emit goes on to lock(), any other row ends here.
BandRow(i) ==
    /\ bands[i].pc = "scan"
    /\ LET y   == bands[i].y
           own == y >= BandRange(i - 1).y_start
           row == RowAET(bands[i].aet, scanline_table.entries, y, height, own)
       IN bands' = [bands EXCEPT ![i] =
                       IF own /\ row # << >>
                       THEN [@ EXCEPT !.aet = row, !.pc = "lock"]
                       ELSE [@ EXCEPT !.aet = Advance(row), !.y = y + 1,
                                      !.pc = AfterRow(i, y)]]
    /\ UNCHANGED << config, threads, inputs, budget, rstate, width, height,
                    image, error, phase, mp, scanline_table, strokers, file,
                    renders, saves, pre, fillSet, strokeSet, bandWrites,
                    arg, ret >>

\* render.rs:134, the lock of a row.
BandLock(i) ==
    /\ bands[i].pc = "lock"
    /\ MutexFree
    /\ bands' = [bands EXCEPT ![i] =
                    [@ EXCEPT !.guard = GuardTaken(@), !.pc = "spans",
                              !.todo = RowPixels(bands[i].aet, 1, bands[i].y,
                                                 width)]]
    /\ UNCHANGED << config, threads, inputs, budget, rstate, width, height,
                    image, error, phase, mp, scanline_table, strokers, file,
                    renders, saves, pre, fillSet, strokeSet, bandWrites,
                    arg, ret >>

\* One blend_pixel of the spans of the row.
BandSpan(i) ==
    /\ bands[i].pc = "spans"
    /\ bands[i].todo # << >>
    /\ image' = blend_pixel(image, Head(bands[i].todo)[1],
                            Head(bands[i].todo)[2], config.fill)
    /\ bands' = [bands EXCEPT ![i] = [@ EXCEPT !.todo = Tail(@)]]
    /\ fillSet' = fillSet \cup {Head(bands[i].todo)}
    /\ bandWrites' = bandWrites \cup {<< i - 1, Head(bands[i].todo) >>}
    /\ UNCHANGED << config, threads, inputs, budget, rstate, width, height,
                    error, phase, mp, scanline_table, strokers, file,
                    renders, saves, pre, strokeSet, arg, ret >>

\* The end of the row: the guard is dropped, every x_current advances.
BandRowEnd(i) ==
    /\ bands[i].pc = "spans"
    /\ bands[i].todo = << >>
    /\ bands' = [bands EXCEPT ![i] =
                    [@ EXCEPT !.guard = GuardDropped(@),
                              !.aet = Advance(@), !.y = @ + 1,
                              !.pc = AfterRow(i, bands[i].y)]]
    /\ UNCHANGED << config, threads, inputs, budget, rstate, width, height,
                    image, error, phase, mp, scanline_table, strokers, file,
                    renders, saves, pre, fillSet, strokeSet, bandWrites,
                    arg, ret >>

\* The band loop has joined; with stroke_width > 0 one closure per polygon
\* starts, each with the in-image pixels of its brush still to composite.
BandsJoin ==
    /\ phase = "fill"
    /\ \A i \in DOMAIN bands : bands[i].pc = "done"
    /\ IF config.stroke_width > 0
       THEN /\ phase' = "stroke"
            /\ strokers' =
                   [k \in 1 .. Len(mp) |->
                       LET px == render_polygon_stroke(mp[k], config, width,
                                                       height)
                       IN [pixels |-> px, guard |-> 0,
                           pc |-> IF px = << >> THEN "done" ELSE "next"]]
       ELSE /\ phase' = "idle"
            /\ UNCHANGED strokers
    /\ UNCHANGED << config, threads, inputs, budget, rstate, width, height,
                    image, error, mp, scanline_table, bands, file, renders,
                    saves, pre, fillSet, strokeSet, bandWrites, arg, ret >>

\* render.rs:235, the lock of a brush pixel.
StrokeLock(k) ==
    /\ strokers[k].pc = "next"
    /\ MutexFree
    /\ strokers' = [strokers EXCEPT ![k] =
                       [@ EXCEPT !.guard = GuardTaken(@), !.pc = "locked"]]
    /\ UNCHANGED << config, threads, inputs, budget, rstate, width, height,
                    image, error, phase, mp, scanline_table, bands, file,
                    renders, saves, pre, fillSet, strokeSet, bandWrites,
                    arg, ret >>

\* render.rs:236, blend_pixel(&mut img, px, py, color).
StrokeBlend(k) ==
    /\ strokers[k].pc = "locked"
    /\ image' = blend_pixel(image, Head(strokers[k].pixels)[1],
                            Head(strokers[k].pixels)[2], StrokeColor(config))
    /\ strokers' = [strokers EXCEPT ![k] = [@ EXCEPT !.pc = "blended"]]
    /\ strokeSet' = strokeSet \cup {Head(strokers[k].pixels)}
    /\ UNCHANGED << config, threads, inputs, budget, rstate, width, height,
                    error, phase, mp, scanline_table, bands, file, renders,
                    saves, pre, fillSet, bandWrites, arg, ret >>

\* The end of the `if` block of the pixel: the guard is dropped.
StrokeUnlock(k) ==
    /\ strokers[k].pc = "blended"
    /\ strokers' = [strokers EXCEPT ![k] =
                       [@ EXCEPT !.guard = GuardDropped(@),
                                 !.pixels = Tail(@),
                                 !.pc = IF Tail(strokers[k].pixels) = << >>
                                        THEN "done" ELSE "next"]]
    /\ UNCHANGED << config, threads, inputs, budget, rstate, width, height,
                    image, error, phase, mp, scanline_table, bands, file,
                    renders, saves, pre, fillSet, strokeSet, bandWrites,
                    arg, ret >>

\* The stroke loop has joined: render_multipolygon returns.
StrokesJoin ==
    /\ phase = "stroke"
    /\ \A k \in DOMAIN strokers : strokers[k].pc = "done"
    /\ phase' = "idle"
    /\ UNCHANGED << config, threads, inputs, budget, rstate, width, height,
                    image, error, mp, scanline_table, bands, strokers, file,
                    renders, saves, pre, fillSet, strokeSet, bandWrites,
                    arg, ret >>

\* render.rs:259, the lock of save; the driving task holds the guard while
\* phase = "saving".
SaveLock ==
    /\ rstate = "ok"
    /\ phase = "idle"
    /\ saves < MaxSaves
    /\ MutexFree
    /\ phase' = "saving"
    /\ UNCHANGED << config, threads, inputs, budget, rstate, width, height,
                    image, error, mp, scanline_table, bands, strokers, file,
                    renders, saves, pre, fillSet, strokeSet, bandWrites,
                    arg, ret >>

\* img.save(path) and the return of save, which drops the guard.
SaveWrite ==
    /\ phase = "saving"
    /\ file' = << png_encode(width, height, image) >>
    /\ saves' = saves + 1
    /\ phase' = "idle"
    /\ UNCHANGED << config, threads, inputs, budget, rstate, width, height,
                    image, error, mp, scanline_table, bands, strokers,
                    renders, pre, fillSet, strokeSet, bandWrites, arg, ret >>

LockConfigs ==
    { RenderConfig(Window5, 1, RedHalf, Blue, 1),
      RenderConfig(Window5, 1, Red, Blue, 0) }

LockShapes == {ShapeTwo, ShapeTriangle, ShapeHole}

InitLock ==
    \E cfg \in LockConfigs, thr \in 1 .. MaxThreads :
        Unbuilt(cfg, thr, LockShapes, 1) /\ NoCall

NextLock ==
    \/ RendererNew
    \/ \E m \in inputs : CallRender(m)
    \/ \E i \in DOMAIN bands : BandRow(i)
    \/ \E i \in DOMAIN bands : BandLock(i)
    \/ \E i \in DOMAIN bands : BandSpan(i)
    \/ \E i \in DOMAIN bands : BandRowEnd(i)
    \/ BandsJoin
    \/ \E k \in DOMAIN strokers : StrokeLock(k)
    \/ \E k \in DOMAIN strokers : StrokeBlend(k)
    \/ \E k \in DOMAIN strokers : StrokeUnlock(k)
    \/ StrokesJoin
    \/ SaveLock
    \/ SaveWrite

SpecLock == InitLock /\ [][NextLock]_vars

\* The workers that hold a guard of the image mutex.
Holders ==
    {<< "band", i >> : i \in {j \in DOMAIN bands : bands[j].guard > 0}}
    \cup {<< "stroke", k >> :
             k \in {j \in DOMAIN strokers : strokers[j].guard > 0}}
    \cup (IF phase = "saving" THEN {<< "save", 0 >>} ELSE {})

\* C25: a worker that is reading or writing a pixel of the image buffer (a
\* band emitting spans, a stroke closure at blend_pixel, save) holds the
\* image mutex; at most one worker holds it at any time; and a worker that
\* is about to lock it holds no guard of it.
C25_MutexDiscipline ==
    /\ Cardinality(Holders) <= 1
    /\ \A i \in DOMAIN bands :
          /\ bands[i].pc = "spans" => bands[i].guard = 1
          /\ bands[i].pc = "lock" => bands[i].guard = 0
          /\ bands[i].guard \in {0, 1}
    /\ \A k \in DOMAIN strokers :
          /\ strokers[k].pc = "locked" => strokers[k].guard = 1
          /\ strokers[k].pc = "next" => strokers[k].guard = 0
          /\ strokers[k].guard \in {0, 1}
    /\ phase = "saving" => Holders = {<< "save", 0 >>}

\* A stroke closure holds the mutex at its blend_pixel while the closure of
\* the other polygon is about to lock, and both have composited pixels.
C25_Witness ==
    /\ phase = "stroke"
    /\ Len(strokers) = 2
    /\ strokers[1].pc = "locked"
    /\ strokers[2].pc = "next"
    /\ Holders = {<< "stroke", 1 >>}
    /\ Len(strokers[1].pixels) < Len(render_polygon_stroke(mp[1], config,
                                                          width, height))
    /\ Len(strokers[2].pixels) < Len(render_polygon_stroke(mp[2], config,
                                                          width, height))
    /\ fillSet # {}


(***************************************************************************)
(* draw_line on i32 (render.rs): the loop one iteration at a time, with    *)
(* the arithmetic of the build.  An overflowing i32 operation panics in a  *)
(* build with overflow checks and wraps in a build without them.           *)
(* strokers[1] is the frame of the one running draw_line.                  *)
(***************************************************************************)
MaxLineSteps == 12

I32_MIN == (0 - I32_MAX) - 1

AddOverflows(a, b) ==
    \/ b > 0 /\ a > I32_MAX - b
    \/ b < 0 /\ a < I32_MIN - b

\* i32::wrapping_add, without leaving the i32 range on the way.
WrappingAdd(a, b) ==
    IF b > 0 /\ a > I32_MAX - b
    THEN ((((a - I32_MAX) - 1) + b) - I32_MAX) - 1
    ELSE IF b < 0 /\ a < I32_MIN - b
    THEN ((((a + I32_MAX) + 1) + b) + I32_MAX) + 1
    ELSE a + b

SubOverflows(a, b) ==
    \/ b < 0 /\ a > I32_MAX + b
    \/ b > 0 /\ a < I32_MIN + b

\* i32::wrapping_sub
WrappingSub(a, b) ==
    IF b < 0 /\ a > I32_MAX + b
    THEN ((((a - I32_MAX) - 1) - b) - I32_MAX) - 1
    ELSE IF b > 0 /\ a < I32_MIN + b
    THEN ((((a + I32_MAX) + 1) - b) + I32_MAX) + 1
    ELSE a - b

\* i32::wrapping_abs and i32::wrapping_neg: i32::MIN is its own result.
WrappingAbs(a) == IF a = I32_MIN THEN a ELSE Abs(a)

WrappingNeg(a) == IF a = I32_MIN THEN a ELSE 0 - a

\* The entry of draw_line: dx, dy, sx, sy and err, and whether one of the
\* operations overflowed.
LineEntry(x0, y0, x1, y1) ==
    LET ddx == WrappingSub(x1, x0)
        ddy == WrappingSub(y1, y0)
        dx  == WrappingAbs(ddx)
        dy  == WrappingNeg(WrappingAbs(ddy))
    IN [dx |-> dx, dy |-> dy,
        sx |-> IF x0 < x1 THEN 1 ELSE -1,
        sy |-> IF y0 < y1 THEN 1 ELSE -1,
        err |-> WrappingAdd(dx, dy),
        overflow |-> \/ SubOverflows(x1, x0)
                     \/ SubOverflows(y1, y0)
                     \/ ddx = I32_MIN
                     \/ ddy = I32_MIN
                     \/ WrappingAbs(ddy) = I32_MIN
                     \/ AddOverflows(dx, dy)]

\* px = x + wx or py = y + wy overflows for some pixel of the brush.
BrushOverflows(x, y, half_width) ==
    \/ x > I32_MAX - half_width
    \/ x < I32_MIN + half_width
    \/ y > I32_MAX - half_width
    \/ y < I32_MIN + half_width

\* The in-image pixels of the brush around (x, y); a brush whose sums
\* wrap lies beyond the image, whose sides are at most MAX_DIMENSION.
WrappingBrush(x, y, half_width, w, h) ==
    IF Abs(x \div 2) > MAX_DIMENSION \/ Abs(y \div 2) > MAX_DIMENSION
    THEN << >>
    ELSE BrushPixels(x, y, half_width, w, h)

\* draw_line(from, to, color, width) up to its `loop`.
DrawLineCall ==
    /\ arg # << >>
    /\ arg.fn = "draw_line"
    /\ rstate = "ok"
    /\ strokers = << >>
    /\ LET e == LineEntry(arg.from[1], arg.from[2], arg.to[1], arg.to[2]) IN
       strokers' = << [pc |-> IF e.overflow /\ arg.checks THEN "panicked"
                              ELSE "loop",
                       x |-> arg.from[1], y |-> arg.from[2], err |-> e.err,
                       dx |-> e.dx, dy |-> e.dy, sx |-> e.sx, sy |-> e.sy,
                       steps |-> 0] >>
    /\ UNCHANGED << config, threads, inputs, budget, rstate, width, height,
                    image, error, phase, mp, scanline_table, bands, file,
                    renders, saves, pre, fillSet, strokeSet, bandWrites,
                    arg, ret >>

\* The frame after one iteration of the `loop`: the brush around (x, y),
\* the test for the end point, and the update of err, x and y.
LineIter(f, to, half_width, checks) ==
    LET bo  == BrushOverflows(f.x, f.y, half_width)
        e2  == WrappingAdd(f.err, f.err)
        mx  == e2 >= f.dy
        my  == e2 <= f.dx
        e3  == IF mx THEN WrappingAdd(f.err, f.dy) ELSE f.err
        ovf == \/ AddOverflows(f.err, f.err)
               \/ mx /\ AddOverflows(f.err, f.dy)
               \/ mx /\ AddOverflows(f.x, f.sx)
               \/ my /\ AddOverflows(e3, f.dx)
               \/ my /\ AddOverflows(f.y, f.sy)
    IN IF bo /\ checks THEN [f EXCEPT !.pc = "panicked"]
       ELSE IF f.x = to[1] /\ f.y = to[2] THEN [f EXCEPT !.pc = "done"]
       ELSE IF ovf /\ checks THEN [f EXCEPT !.pc = "panicked"]
       ELSE [f EXCEPT !.err = IF my THEN WrappingAdd(e3, f.dx) ELSE e3,
                      !.x = IF mx THEN WrappingAdd(f.x, f.sx) ELSE f.x,
                      !.y = IF my THEN WrappingAdd(f.y, f.sy) ELSE f.y,
                      !.steps = f.steps + 1]

\* What one iteration of the `loop` does to the frame.
LineTurn ==
    /\ strokers # << >>
    /\ strokers[1].pc = "loop"
    /\ strokers[1].steps < MaxLineSteps
    /\ strokers' = << LineIter(strokers[1], arg.to, arg.width \div 2,
                               arg.checks) >>

\* blend_pixel for each pixel of one brush square: the pixels differ from
\* each other and a call reads and writes its own pixel only.
BlendBrush(img, pixels, color) ==
    [xy \in DOMAIN img |->
        IF \E i \in 1 .. Len(pixels) : pixels[i] = xy
        THEN blend_pixel(img, xy[1], xy[2], color)[xy]
        ELSE img[xy]]

\* One iteration of the `loop` of the running draw_line.
DrawLineIter ==
    /\ LineTurn
    /\ image' = BlendBrush(image,
                           WrappingBrush(strokers[1].x, strokers[1].y,
                                         arg.width \div 2, width, height),
                           StrokeColor(config))
    /\ ret' = IF strokers'[1].pc = "done" THEN << "returned" >> ELSE ret
    /\ UNCHANGED << config, threads, inputs, budget, rstate, width, height,
                    error, phase, mp, scanline_table, bands, file, renders,
                    saves, pre, fillSet, strokeSet, bandWrites, arg >>

\* Pixel coordinates near the window, and far ones: 2^30 + 1 and the
\* values an `as i32` cast saturates to.
NearCoords == {-1, 0, 2, 4}

FarCoords == {1073741825, I32_MAX, I32_MIN}

LinePoints ==
    (NearCoords \X NearCoords)
    \cup {<< 1073741825, 0 >>, << I32_MAX, 3 >>, << 2, I32_MIN >>,
          << I32_MIN, I32_MAX >>, << I32_MAX, I32_MAX >>}

\* Renderer::new for a 5 x 5 image, then draw_line alone; `checks` is
\* whether the build has overflow checks.
InitLine ==
    \E from \in LinePoints, to \in LinePoints, sw \in {1, 3},
       checks \in BOOLEAN :
        /\ Unbuilt(RenderConfig(Window5, 1, RedHalf, Grey, sw), 1, {}, 0)
        /\ arg = [fn |-> "draw_line", from |-> from, to |-> to,
                  width |-> sw, checks |-> checks]
        /\ ret = << >>

NextLine == RendererNew \/ DrawLineCall \/ DrawLineIter

\* The thread that runs draw_line keeps running: a step it can take, it
\* takes.
SpecLine ==
    /\ InitLine
    /\ [][NextLine]_vars
    /\ WF_vars(RendererNew)
    /\ WF_vars(DrawLineCall)
    /\ WF_strokers(LineTurn)

LineReached == strokers # << >> /\ strokers[1].pc = "done"

\* The model follows a loop for MaxLineSteps iterations.
LineCut == strokers # << >> /\ strokers[1].steps >= MaxLineSteps

\* C26, the Bresenham loop: every draw_line call reaches its end point
\* (x1, y1) after finitely many iterations, for every pair of integer end
\* points (as far as the model follows the loop).
C26_LineEnds == <>(LineReached \/ LineCut)

\* The same for end points near the window.
NearLineEnds ==
    (arg.from \in NearCoords \X NearCoords /\ arg.to \in NearCoords \X NearCoords)
        => <>LineReached



(***************************************************************************)
(* Geometry outside the window, and windows without pixels (render.rs,     *)
(* the span clamps of render_multipolygon and the brush test of draw_line).*)
(***************************************************************************)
\* Windows of 5 x 5, 0 x 5, 5 x 0 and 0 x 0 pixels at resolution 1.
OutsideWindows ==
    {Window5, Bbox_new(0, 0, 0, 5), Bbox_new(0, 0, 5, 0), Bbox_new(0, 0, 0, 0)}

\* Wholly right of the 5-wide window, and touching its right border.
ShapeRight == << Poly(Rect(6, 1, 8, 4), << >>) >>

ShapeRightEdge == << Poly(Rect(5, 1, 7, 3), << >>) >>

\* Wholly left of the window, and touching its left border.
ShapeLeft == << Poly(Rect(-3, 1, -1, 4), << >>) >>

ShapeLeftEdge == << Poly(Rect(-2, 0, 0, 5), << >>) >>

\* Vertices far from the window, the sides crossing or bordering it.
ShapeFar ==
    << Poly(<< << -20, 5 >>, << 25, 5 >>, << 3, -30 >>, << -20, 5 >> >>,
            << >>) >>

OutsideShapes ==
    {ShapeRight, ShapeRightEdge, ShapeLeft, ShapeLeftEdge, ShapeFar,
     ShapeRight \o ShapeLeft, ShapeSlant, ShapeHole}

OutsideConfigs ==
    { RenderConfig(b, 1, RedHalf, Grey, sw) :
        b \in OutsideWindows, sw \in {0, 1, 3} }

InitOutside ==
    \E cfg \in OutsideConfigs :
        Unbuilt(cfg, 1, OutsideShapes, 1) /\ NoCall

SpecOutside == InitOutside /\ [][Next]_vars

\* The x_px of every vertex of every ring of the MultiPolygon m, as
\* numerators over the resolution.
VertexXs(m) ==
    UNION { {Projected(m[k].exterior)[i][1] :
                i \in 1 .. Len(m[k].exterior)}
            \cup UNION { {Projected(m[k].interiors[j])[i][1] :
                             i \in 1 .. Len(m[k].interiors[j])} :
                         j \in 1 .. Len(m[k].interiors) } :
            k \in 1 .. Len(m) }

\* All x_px >= width; all x_px <= 0.
AllRightOf(m) == \A x \in VertexXs(m) : x >= width * config.resolution

AllLeftOf(m) == \A x \in VertexXs(m) : x <= 0

\* A render_multipolygon call without a stroke pass has returned.
FilledOnly ==
    /\ rstate = "ok"
    /\ phase = "idle"
    /\ renders = 1
    /\ config.stroke_width = 0

\* C27: with stroke_width 0, a MultiPolygon whose projected vertices all
\* lie right of the window (x_px >= width) or all lie left of it
\* (x_px <= 0) leaves every pixel of the image as it was before
\* render_multipolygon.
C27_OutsideUnchanged ==
    (FilledOnly /\ (AllRightOf(mp) \/ AllLeftOf(mp))) => image = pre

\* The left half of the sentence alone.
LeftOutsideUnchanged == (FilledOnly /\ AllLeftOf(mp)) => image = pre

\* The pixels of the buffer.
Buffer == (0 .. width - 1) \X (0 .. height - 1)

\* The pixels band i - 1 composites in its next own row (BandStep).
NextRowPixels(i) ==
    LET y   == Max(bands[i].y, BandRange(i - 1).y_start)
        a0  == PreRoll(bands[i].aet, scanline_table.entries, bands[i].y,
                       y, height)
        row == RowAET(a0, scanline_table.entries, y, height, TRUE)
        px  == RowPixels(row, 1, y, width)
    IN {px[k] : k \in 1 .. Len(px)}

\* The blend_pixel calls the running pass is about to make.
Pending ==
    IF phase = "fill"
    THEN UNION {NextRowPixels(i) : i \in {j \in DOMAIN bands : ~BandDone(j)}}
    ELSE IF phase = "stroke"
    THEN UNION {{strokers[k][n] : n \in 1 .. Len(strokers[k])} :
                   k \in DOMAIN strokers}
    ELSE {}

\* C28: every blend_pixel call of the fill pass and of the stroke pass,
\* made or about to be made, has 0 <= x < width and 0 <= y < height,
\* whatever the geometry (vertices far outside the window included) and
\* whatever the image size (width 0 and height 0 included).
C28_InsideBuffer == fillSet \cup strokeSet \cup Pending \subseteq Buffer

\* A polygon with vertices far outside the window has been filled and
\* stroked with a 3 x 3 brush, both passes compositing pixels.
C28_Witness ==
    /\ phase = "idle"
    /\ renders = 1
    /\ mp = ShapeFar
    /\ config.stroke_width = 3
    /\ fillSet # {}
    /\ strokeSet # {}
    /\ width = 5



(***************************************************************************)
(* The stroke pass against sequential stroking (render.rs, the par_bridge  *)
(* loop of render_multipolygon).                                           *)
(***************************************************************************)
\* The orders in which n polygons can be taken.
Orders(n) ==
    {o \in [1 .. n -> 1 .. n] : \A i, j \in 1 .. n : o[i] = o[j] => i = j}

\* The blend_pixel calls of render_polygon_stroke for the polygons of m one
\* after the other, in the order o, from polygon number i of that order on.
RECURSIVE CallsInOrder(_, _, _)
CallsInOrder(m, o, i) ==
    IF i > Len(m) THEN << >>
    ELSE render_polygon_stroke(m[o[i]], config, width, height)
         \o CallsInOrder(m, o, i + 1)

\* The image those calls leave when made one after the other on img: a
\* call changes its own pixel only, so pixel xy is what the calls made on
\* xy, in their order, leave of it.
StrokeInOrder(img, m, o) ==
    LET calls == CallsInOrder(m, o, 1)
    IN [xy \in DOMAIN img |->
           BlendAll([q \in {xy} |-> img[xy]],
                    SelectSeq(calls, LAMBDA c : c = xy), 1,
                    StrokeColor(config))[xy]]

\* render_multipolygon has returned from a call with a stroke pass.
StrokePassOver ==
    /\ rstate = "ok"
    /\ phase = "idle"
    /\ renders = 1
    /\ config.stroke_width > 0

\* C29: whatever the interleaving of the stroke workers and of their
\* per-pixel lock acquisitions, the image after the stroke pass is the image
\* that stroking the polygons one after the other over the filled image
\* gives, in every order of the polygons.
C29_StrokeOrder ==
    StrokePassOver =>
        \A o \in Orders(Len(mp)) : image = StrokeInOrder(OneBandFill, mp, o)

\* Two polygons have been stroked with a 3 x 3 brush, and some pixel was
\* composited by both workers.
C29_Witness ==
    /\ StrokePassOver
    /\ Len(mp) = 2
    /\ config.stroke_width = 3
    /\ image # OneBandFill
    /\ \E p \in strokeSet :
          \A k \in 1 .. 2 :
              \E n \in DOMAIN render_polygon_stroke(mp[k], config, width,
                                                    height) :
                  render_polygon_stroke(mp[k], config, width, height)[n] = p



(***************************************************************************)
(* preprocess_geojson on well-formed documents (src/src/geojson.rs):       *)
(* features with a properties member whose values are strings.             *)
(***************************************************************************)
MaxProperties == 2

K_properties ==
    << "p", "r", "o", "p", "e", "r", "t", "i", "e", "s" >>

K_name ==
    << "n", "a", "m", "e" >>

\* The values of the properties: "", "a" and "ab".
PropValues == {<< >>, << "a" >>, << "a", "b" >>}

PropDigits == << "1", "2", "3", "4", "5" >>

\* The key of property number i: "name", "p2", "p3", ...
PropKey(i) == IF i = 1 THEN K_name ELSE << "p", PropDigits[i] >>

RECURSIVE PropMembers(_, _)
PropMembers(vals, i) ==
    IF i > Len(vals) THEN << >>
    ELSE (IF i > 1 THEN << "," >> ELSE << >>)
         \o << Quote >> \o PropKey(i) \o << Quote, ":", Quote >> \o vals[i]
         \o << Quote >> \o PropMembers(vals, i + 1)

\* "properties":{"name":"...", ...}
PropertiesMember(vals) ==
    << Quote >> \o K_properties \o << Quote, ":", "{" >>
    \o PropMembers(vals, 1) \o << "}" >>

\* A Feature with its properties before or after its geometry.
FeatureText(geometry, vals, first) ==
    << "{" >> \o TypeMember(N_Feature, << >>) \o << "," >>
    \o (IF first THEN PropertiesMember(vals) \o << "," >> ELSE << >>)
    \o << Quote >> \o K_geometry \o << Quote, ":" >> \o geometry
    \o (IF first THEN << >> ELSE << "," >> \o PropertiesMember(vals))
    \o << "}" >>

PropInput(level, ty, coords, vals, first) ==
    LET feature == FeatureText(GeometryText(ty, << >>, coords, TRUE), vals,
                               first)
    IN [fn |-> "open",
        content |-> IF level = "Feature" THEN feature
                    ELSE CollectionOpen \o feature \o << "," >>
                         \o PolygonFeature \o << "]", "}" >>,
        props |-> vals]

PropInputs ==
    {PropInput(level, g[1], g[2], vals, first) :
        level \in {"Feature", "FeatureCollection"},
        g \in {<< N_MultiPolygon, MultiPolygonCoords >>,
               << N_Polygon, PolygonCoords >>},
        vals \in UNION {[1 .. n -> PropValues] : n \in 0 .. MaxProperties},
        first \in BOOLEAN}

InitProps ==
    \E a \in PropInputs :
        /\ Unbuilt(DefaultConfig, 1, {}, 0)
        /\ arg = a
        /\ ret = << >>

SpecProps == InitProps /\ [][NextGeojson]_vars

\* The document parses as it is, and holds some geometry.
ValidDocument(content) ==
    /\ GeoJson_from_str(content).ok
    /\ extract_geometries(GeoJson_from_str(content).val) # << >>

NoEmptyType(content) ==
    /\ Occurrences(content, TypeEmpty) = 0
    /\ Occurrences(content, TypeSpEmpty) = 0

\* The preprocessed text is a valid document with the geometries of the
\* input.
Undamaged ==
    /\ GeoJson_from_str(ret[1].content).ok
    /\ ret[1].result
         = Ok(extract_geometries(GeoJson_from_str(arg.content).val))

\* C30: a valid GeoJSON document without an empty type field, such as one
\* with the property "name":"", is after preprocess_geojson still a valid
\* document with the same geometries.
C30_Undamaged ==
    (Opened /\ ValidDocument(arg.content) /\ NoEmptyType(arg.content))
        => Undamaged

\* The same for the documents in which no string is empty.
NoEmptyStringUndamaged ==
    (/\ Opened
     /\ ValidDocument(arg.content)
     /\ Occurrences(arg.content, << Quote, Quote >>) = 0)
        => Undamaged

=============================================================================
